---- MODULE Spec2Model ----
(***************************************************************************)
(* A state-machine model of the public handle API of libewf                *)
(* (src/libewf/libewf_file.c): open, close, seek, the getters and the      *)
(* setters of one handle.                                                  *)
(*                                                                         *)
(* Pointers are modelled as sequences: NULL is the empty sequence and a    *)
(* pointer to a structure s is <<s>>, so that p = NULL is the C test and   *)
(* p[1] the dereference.  The sub handles media, read and write of the     *)
(* internal handle are such pointers, as in the source.                    *)
(*                                                                         *)
(* Unsigned inputs are drawn from -1..Max: the value -1 stands for the     *)
(* all-ones bit pattern, the one value of the model that exceeds INT32_MAX *)
(* (or INT64_MAX for the 64 bit sizes).  A 16 byte buffer (GUID, MD5) is   *)
(* modelled by a number naming its contents, 0 being the zeroed buffer.    *)
(***************************************************************************)
EXTENDS Integers, Sequences, FiniteSets, TLC

(* ------------------------------ bounds -------------------------------- *)

\* The 8, 32 and 64 bit inputs of the setters range over -1..MaxUint.
MaxUint == 1

\* The media values of an image that is read: its sectors per chunk range
\* over 1..MaxSectorsPerChunk, its bytes per sector over 1..MaxBytesPerSector
\* and its amount of sectors over 0..MaxSectors.
MaxSectorsPerChunk == 2

MaxBytesPerSector == 2

MaxSectors == 3

\* The contents of a GUID or MD5 buffer passed by the caller: 1..MaxDigest.
MaxDigest == 2

\* The number of times libewf_write_finalize is run on one handle.
MaxFinalizeRuns == 2

\* The largest start sector of an error the caller adds.
MaxErrorSector == 1

\* The largest number of entries the two error lists of a handle hold together.
MaxErrors == 2

(* ------------------------- program constants -------------------------- *)

INT32_MAX == 2147483647

EWF_DIGEST_HASH_SIZE_MD5 == 16

GUID_SIZE == 16

EWF_MEDIA_FLAGS_IS_PHYSICAL == 2

INT8_MAX == 127

UINT8_MAX == 255

NULL == << >>

LIBEWF_FLAG_READ == "READ"

LIBEWF_FLAG_WRITE == "WRITE"

LIBEWF_VOLUME_TYPE_LOGICAL == "LOGICAL"

LIBEWF_VOLUME_TYPE_PHYSICAL == "PHYSICAL"

EWF_COMPRESSION_NONE == "NONE"

\* value > (uint32_t) INT32_MAX, for a value of the model
ExceedsInt32Max(value) == value < 0 \/ value > INT32_MAX

\* value > (size64_t) INT64_MAX: only the all-ones pattern -1 does
ExceedsInt64Max(value) == value = -1

\* A 64 bit size of 2^31 or more that does not exceed INT64_MAX and that the
\* model does not hold exactly: the product of two geometry values below
\* 2^32 - 1.  It stands above every offset below 2^31; the model holds it
\* as -2.
SIZE64_WIDE == -2

\* The 64 bit values from 2^32 - 1 that the model holds exactly are
\* chunks * (2^32 - 1) + WideRests[place] for chunks from 1 and a place of
\* WideRests.  The numbers of the model end at INT32_MAX, so that such a
\* value is held as a number from -9 down, lower for a larger value.
WideRests == << 0, 1, INT32_MAX >>

Wide(chunks, place) == 0 - (4 * chunks + place) - 4

IsWide(value) == value <= Wide(1, 1)

\* (size64_t) a * (size64_t) b for two 32 bit values, -1 being 2^32 - 1:
\* the exact product where the model can hold it.
Product64(a, b) ==
    IF a = 0 \/ b = 0
    THEN 0
    ELSE IF a = -1 /\ b = -1
    THEN -1
    ELSE IF a = -1
    THEN Wide(b, 1)
    ELSE IF b = -1
    THEN Wide(a, 1)
    ELSE IF a > INT32_MAX \div b
    THEN SIZE64_WIDE
    ELSE a * b

\* offset >= (off64_t) size for an offset that is not negative: a size above
\* INT64_MAX is negative after the cast.
OffsetReaches(offset, size) ==
    IF size = SIZE64_WIDE
    THEN FALSE
    ELSE IF IsWide(size)
    THEN IsWide(offset) /\ offset <= size
    ELSE IF IsWide(offset)
    THEN TRUE
    ELSE offset >= size

\* offset / chunk_size and offset % chunk_size in 64 bits, for a 32 bit
\* chunk size that is not 0, -1 being 2^32 - 1.  An offset from 2^32 - 1 is
\* below the media size only on a handle whose chunk size is 2^32 - 1.
Quotient64(offset, chunk_size) ==
    IF chunk_size = -1
    THEN IF IsWide(offset) THEN (0 - offset - 4) \div 4 ELSE 0
    ELSE offset \div chunk_size

Remainder64(offset, chunk_size) ==
    IF chunk_size = -1
    THEN IF IsWide(offset) THEN WideRests[(0 - offset - 4) % 4] ELSE offset
    ELSE offset % chunk_size

\* flags | bit and flags & ~bit for a single bit (a power of two)
BitSet(flags, bit) == IF (flags \div bit) % 2 = 1 THEN flags ELSE flags + bit

BitClear(flags, bit) == IF (flags \div bit) % 2 = 1 THEN flags - bit ELSE flags

BitTest(flags, bit) == (flags \div bit) % 2 = 1

(* ------------------------------ inputs -------------------------------- *)

Uint32Values == -1 .. MaxUint

Size64Values == -1 .. MaxUint

Uint8Values == 0 .. MaxUint

\* the media types a caller passes: small ones, the largest that fits an
\* int8_t and the largest uint8_t
MediaTypes == Uint8Values \cup {INT8_MAX, UINT8_MAX}

\* a caller's 16 byte buffer: NULL or a pointer to its contents
BufferValues == {NULL} \cup { <<d>> : d \in 1 .. MaxDigest }

BufferSizes == {GUID_SIZE - 1, GUID_SIZE}

FlagValues == SUBSET {LIBEWF_FLAG_READ, LIBEWF_FLAG_WRITE, "OTHER"}

VolumeTypes == {LIBEWF_VOLUME_TYPE_LOGICAL, LIBEWF_VOLUME_TYPE_PHYSICAL, "UNSUPPORTED"}

CompressionLevels == {EWF_COMPRESSION_NONE, "FAST", "BEST"}

FormatValues == {"ENCASE2", "ENCASE5", "SMART"}

FilenameValues == {NULL, <<"delta">>}

\* The media values a set of segment files can hold (its volume section).
Images ==
    { [sectors_per_chunk |-> spc, bytes_per_sector |-> bps, amount_of_sectors |-> n]
        : spc \in 1 .. MaxSectorsPerChunk, bps \in 1 .. MaxBytesPerSector,
          n \in 0 .. MaxSectors }

\* An image whose volume section holds the largest 32 bit values: a chunk of
\* 2^32 - 1 bytes and a media of one such chunk.
WideImage ==
    { [sectors_per_chunk |-> -1, bytes_per_sector |-> 1, amount_of_sectors |-> -1] }

\* A values table is a sequence of identifiers with their values; a header
\* section holds the text of one, or is absent.
HeaderSections(section, version) ==
    { NULL, << << [identifier |-> "case_number", value |-> section],
                  [identifier |-> "acquiry_software_version", value |-> version] >> >> }

\* The images with each of the three header sections present or absent; the
\* header2 section is of another version of the acquiry software.
HeaderImages ==
    { [sectors_per_chunk |-> 1, bytes_per_sector |-> 1, amount_of_sectors |-> 1,
       xheader |-> xheader, header2 |-> header2, header |-> header]
        : xheader \in HeaderSections("xheader", "3"),
          header2 \in HeaderSections("header2", "4"),
          header \in HeaderSections("header", "3") }

\* The images whose media size is 2^32 - 1 or more: WideImage, an image of
\* 2^32 - 1 chunks of one byte, and images of up to MaxSectors chunks of
\* 2^32 - 1 bytes.
WideImages ==
    WideImage
    \cup { [sectors_per_chunk |-> 1, bytes_per_sector |-> 1, amount_of_sectors |-> -1] }
    \cup { [sectors_per_chunk |-> 1, bytes_per_sector |-> -1, amount_of_sectors |-> n]
             : n \in 1 .. MaxSectors }

\* One image, for the specifications that do not look at the media values.
OneImage ==
    { [sectors_per_chunk |-> 1, bytes_per_sector |-> MaxBytesPerSector,
       amount_of_sectors |-> MaxSectors] }

(* ------------------------------- state -------------------------------- *)

VARIABLES
    caller_handle,  \* the caller's LIBEWF_HANDLE *: NULL or <<internal handle>>
    freed,          \* TRUE once libewf_internal_handle_free released the handle
    call,           \* the last API call: its name, arguments, result and steps
    pre,            \* the handle and the history as they were before the last call
    first_guid,     \* history: the argument of the first successful set_guid
    first_md5_hash, \* history: the argument of the first successful set_md5_hash
    finalize_runs   \* history: the outcome (ok or not) of every run of
                    \* libewf_write_finalize on the handle, in order

vars == <<caller_handle, freed, call, pre, first_guid, first_md5_hash, finalize_runs>>

\* The result of an API function: the handle after it and the value returned.
Result(h, ret) == [handle |-> h, ret |-> ret, out |-> NULL, steps |-> << >>]

ResultOut(h, ret, out) == [handle |-> h, ret |-> ret, out |-> out, steps |-> << >>]

ResultSteps(h, ret, steps) == [handle |-> h, ret |-> ret, out |-> NULL, steps |-> steps]

(* ------------------ internal handle (libewf_internal_handle.c) -------- *)

\* libewf_internal_handle_alloc: media always, read and write by the flags
libewf_internal_handle_alloc(flags) ==
    << [ media |-> << [ sectors_per_chunk |-> 0,
                        bytes_per_sector  |-> 0,
                        chunk_size        |-> 0,
                        amount_of_sectors |-> 0,
                        media_size        |-> 0,
                        media_type        |-> 0,
                        media_flags       |-> 1,
                        error_granularity |-> 0 ] >>,
         read  |-> IF LIBEWF_FLAG_READ \in flags
                   THEN << [ wipe_on_error        |-> 0,
                             crc_error_sectors    |-> NULL,
                             crc_amount_of_errors |-> 0 ] >>
                   ELSE NULL,
         write |-> IF LIBEWF_FLAG_WRITE \in flags
                   THEN << [ values_initialized   |-> 0,
                             write_finalized      |-> 0,
                             compress_empty_block |-> 0,
                             segment_file_size    |-> 0,
                             input_write_size     |-> 0 ] >>
                   ELSE NULL,
         delta_segment_table  |-> << [ filename |-> NULL ] >>,
         compression_level    |-> EWF_COMPRESSION_NONE,
         format               |-> "UNKNOWN",
         guid                 |-> 0,
         md5_hash             |-> 0,
         md5_hash_set         |-> 0,
         current_chunk        |-> 0,
         current_chunk_offset |-> 0,
         acquiry_error_sectors    |-> NULL,
         acquiry_amount_of_errors |-> 0,
         xheader       |-> NULL,
         header2       |-> NULL,
         header        |-> NULL,
         header_values |-> NULL,
         hash_values   |-> NULL ] >>

\* libewf_segment_file_read_open: the media values of the volume section
libewf_segment_file_read_open(internal_handle, image) ==
    << [ internal_handle[1] EXCEPT
           !.media[1].sectors_per_chunk = image.sectors_per_chunk,
           !.media[1].bytes_per_sector  = image.bytes_per_sector,
           !.media[1].chunk_size        = image.sectors_per_chunk * image.bytes_per_sector,
           !.media[1].amount_of_sectors = image.amount_of_sectors,
           !.xheader = IF "xheader" \in DOMAIN image THEN image.xheader ELSE NULL,
           !.header2 = IF "header2" \in DOMAIN image THEN image.header2 ELSE NULL,
           !.header  = IF "header" \in DOMAIN image THEN image.header ELSE NULL ] >>

\* libewf_internal_handle_determine_format: the format of the segment files
libewf_internal_handle_determine_format(internal_handle) ==
    << [ internal_handle[1] EXCEPT !.format = "ENCASE5" ] >>

\* libewf_internal_handle_write_initialize: validates the geometry, derives
\* the chunk size and freezes the write values.  ok is FALSE for a failure
\* of its own (allocation); a failure changes nothing.
libewf_internal_handle_write_initialize(internal_handle, ok) ==
    LET h == internal_handle[1] IN
    IF \/ ~ok
       \/ h.write = NULL
       \/ h.media[1].sectors_per_chunk = 0
       \/ h.media[1].bytes_per_sector = 0
    THEN Result(internal_handle, -1)
    ELSE Result( << [ h EXCEPT
                        !.media[1].chunk_size = h.media[1].sectors_per_chunk
                                                * h.media[1].bytes_per_sector,
                        !.write[1].values_initialized = 1 ] >>,
                 1 )

(* --------------------- write (libewf_write.c) -------------------------- *)

\* One step of an API function: the internal function called and whether it
\* succeeded.
Step(fn, ok) == [fn |-> fn, ok |-> ok]

\* libewf_write_finalize: WriteInitialized -> Finalized; initializes the
\* write values first when the handle was never written to.  ok is FALSE for
\* a failure of its own (I/O, allocation); a failure changes nothing.  It is
\* a step of its caller only when it got as far as finalizing.
libewf_write_finalize(handle, ok) ==
    IF handle = NULL
    THEN Result(handle, -1)
    ELSE IF handle[1].write = NULL
    THEN Result(handle, -1)
    ELSE IF handle[1].write[1].write_finalized # 0
    THEN Result(handle, 0)
    ELSE LET initialized ==
                 IF handle[1].write[1].values_initialized = 0
                 THEN libewf_internal_handle_write_initialize(handle, ok)
                 ELSE Result(handle, 1)
         IN  IF initialized.ret # 1 \/ ~ok
             THEN ResultSteps(handle, -1, << Step("libewf_write_finalize", FALSE) >>)
             ELSE ResultSteps(
                      << [ initialized.handle[1] EXCEPT !.write[1].write_finalized = 1 ] >>,
                      0,
                      << Step("libewf_write_finalize", TRUE) >> )

\* libewf_write_buffer: the first write initializes the write values
libewf_write_buffer(handle, ok) ==
    IF handle = NULL
    THEN Result(handle, -1)
    ELSE IF handle[1].write = NULL
    THEN Result(handle, -1)
    ELSE IF handle[1].write[1].values_initialized = 0
    THEN LET initialized == libewf_internal_handle_write_initialize(handle, ok)
         IN  IF initialized.ret # 1
             THEN Result(handle, -1)
             ELSE Result(initialized.handle, 1)
    ELSE IF ~ok
    THEN Result(handle, -1)
    ELSE Result(handle, 1)

(* ----------------------- open and close ------------------------------- *)

\* What the environment decides in a libewf_open: which internal calls
\* succeed, and the image the segment files hold.
OpenOutcomes(images) ==
    [ alloc_ok : BOOLEAN, read_initialize_ok : BOOLEAN, read_open_ok : BOOLEAN,
      determine_format_ok : BOOLEAN, write_open_ok : BOOLEAN, image : images ]

\* libewf_open without the test of the flags: it allocates the handle
\* whatever the flags are.
libewf_open_any_flags(filenames, file_amount, flags, env) ==
    LET allocated == libewf_internal_handle_alloc(flags)
        read_opened == libewf_segment_file_read_open(allocated, env.image)
        formatted == IF env.determine_format_ok
                     THEN libewf_internal_handle_determine_format(read_opened)
                     ELSE read_opened
        sized == << [ formatted[1] EXCEPT
                        !.media[1].media_size =
                            Product64(formatted[1].media[1].amount_of_sectors,
                                      formatted[1].media[1].bytes_per_sector) ] >>
        alloc == Step("libewf_internal_handle_alloc", env.alloc_ok)
        free == Step("libewf_internal_handle_free", TRUE)
    IN
    IF filenames = NULL
    THEN ResultSteps(NULL, NULL, << >>)
    ELSE IF file_amount < 1
    THEN ResultSteps(NULL, NULL, << >>)
    ELSE IF ~env.alloc_ok
    THEN ResultSteps(NULL, NULL, << alloc >>)
    ELSE IF LIBEWF_FLAG_READ \in flags
    THEN IF ~env.read_initialize_ok
         THEN ResultSteps(NULL, NULL,
                  << alloc, Step("libewf_internal_handle_read_initialize", FALSE), free >>)
         ELSE IF ~env.read_open_ok
         THEN ResultSteps(NULL, NULL,
                  << alloc, Step("libewf_internal_handle_read_initialize", TRUE),
                     Step("libewf_segment_file_read_open", FALSE), free >>)
         ELSE ResultSteps(sized, sized,
                  << alloc, Step("libewf_internal_handle_read_initialize", TRUE),
                     Step("libewf_segment_file_read_open", TRUE),
                     Step("libewf_internal_handle_determine_format", env.determine_format_ok) >>)
    ELSE IF LIBEWF_FLAG_WRITE \in flags
    THEN IF ~env.write_open_ok
         THEN ResultSteps(NULL, NULL,
                  << alloc, Step("libewf_segment_file_write_open", FALSE), free >>)
         ELSE ResultSteps(allocated, allocated,
                  << alloc, Step("libewf_segment_file_write_open", TRUE) >>)
    ELSE ResultSteps(allocated, allocated, << alloc >>)

\* libewf_open with the write path taken whenever LIBEWF_FLAG_WRITE is set
libewf_open_write_first(filenames, file_amount, flags, env) ==
    LET allocated == libewf_internal_handle_alloc(flags)
        read_opened == libewf_segment_file_read_open(allocated, env.image)
        formatted == IF env.determine_format_ok
                     THEN libewf_internal_handle_determine_format(read_opened)
                     ELSE read_opened
        sized == << [ formatted[1] EXCEPT
                        !.media[1].media_size =
                            Product64(formatted[1].media[1].amount_of_sectors,
                                      formatted[1].media[1].bytes_per_sector) ] >>
        alloc == Step("libewf_internal_handle_alloc", env.alloc_ok)
        free == Step("libewf_internal_handle_free", TRUE)
    IN
    IF filenames = NULL
    THEN ResultSteps(NULL, NULL, << >>)
    ELSE IF file_amount < 1
    THEN ResultSteps(NULL, NULL, << >>)
    ELSE IF LIBEWF_FLAG_READ \notin flags /\ LIBEWF_FLAG_WRITE \notin flags
    THEN ResultSteps(NULL, NULL, << >>)
    ELSE IF ~env.alloc_ok
    THEN ResultSteps(NULL, NULL, << alloc >>)
    ELSE IF LIBEWF_FLAG_READ \in flags /\ LIBEWF_FLAG_WRITE \notin flags
    THEN IF ~env.read_initialize_ok
         THEN ResultSteps(NULL, NULL,
                  << alloc, Step("libewf_internal_handle_read_initialize", FALSE), free >>)
         ELSE IF ~env.read_open_ok
         THEN ResultSteps(NULL, NULL,
                  << alloc, Step("libewf_internal_handle_read_initialize", TRUE),
                     Step("libewf_segment_file_read_open", FALSE), free >>)
         ELSE ResultSteps(sized, sized,
                  << alloc, Step("libewf_internal_handle_read_initialize", TRUE),
                     Step("libewf_segment_file_read_open", TRUE),
                     Step("libewf_internal_handle_determine_format", env.determine_format_ok) >>)
    ELSE IF LIBEWF_FLAG_WRITE \in flags
    THEN IF ~env.write_open_ok
         THEN ResultSteps(NULL, NULL,
                  << alloc, Step("libewf_segment_file_write_open", FALSE), free >>)
         ELSE ResultSteps(allocated, allocated,
                  << alloc, Step("libewf_segment_file_write_open", TRUE) >>)
    ELSE ResultSteps(allocated, allocated, << alloc >>)

\* libewf_open: the handle returned (NULL on error) and the steps taken
libewf_open(filenames, file_amount, flags, env) ==
    LET allocated == libewf_internal_handle_alloc(flags)
        read_opened == libewf_segment_file_read_open(allocated, env.image)
        formatted == IF env.determine_format_ok
                     THEN libewf_internal_handle_determine_format(read_opened)
                     ELSE read_opened
        sized == << [ formatted[1] EXCEPT
                        !.media[1].media_size =
                            Product64(formatted[1].media[1].amount_of_sectors,
                                      formatted[1].media[1].bytes_per_sector) ] >>
        alloc == Step("libewf_internal_handle_alloc", env.alloc_ok)
        free == Step("libewf_internal_handle_free", TRUE)
    IN
    IF filenames = NULL
    THEN ResultSteps(NULL, NULL, << >>)
    ELSE IF file_amount < 1
    THEN ResultSteps(NULL, NULL, << >>)
    ELSE IF LIBEWF_FLAG_READ \notin flags /\ LIBEWF_FLAG_WRITE \notin flags
    THEN ResultSteps(NULL, NULL, << >>)
    ELSE IF ~env.alloc_ok
    THEN ResultSteps(NULL, NULL, << alloc >>)
    ELSE IF LIBEWF_FLAG_READ \in flags
    THEN IF ~env.read_initialize_ok
         THEN ResultSteps(NULL, NULL,
                  << alloc, Step("libewf_internal_handle_read_initialize", FALSE), free >>)
         ELSE IF ~env.read_open_ok
         THEN ResultSteps(NULL, NULL,
                  << alloc, Step("libewf_internal_handle_read_initialize", TRUE),
                     Step("libewf_segment_file_read_open", FALSE), free >>)
         ELSE ResultSteps(sized, sized,
                  << alloc, Step("libewf_internal_handle_read_initialize", TRUE),
                     Step("libewf_segment_file_read_open", TRUE),
                     Step("libewf_internal_handle_determine_format", env.determine_format_ok) >>)
    ELSE IF LIBEWF_FLAG_WRITE \in flags
    THEN IF ~env.write_open_ok
         THEN ResultSteps(NULL, NULL,
                  << alloc, Step("libewf_segment_file_write_open", FALSE), free >>)
         ELSE ResultSteps(allocated, allocated,
                  << alloc, Step("libewf_segment_file_write_open", TRUE) >>)
    ELSE ResultSteps(allocated, allocated, << alloc >>)

\* libewf_close without the test of write_finalized: it finalizes every
\* handle that has a write sub handle.
libewf_close_finalizing_again(handle, finalize_ok, close_all_ok) ==
    IF handle = NULL
    THEN Result(handle, -1)
    ELSE LET finalizing == handle[1].write # NULL
             finalized == IF finalizing
                          THEN libewf_write_finalize(handle, finalize_ok)
                          ELSE Result(handle, 0)
             finalize == IF finalizing
                         THEN << Step("libewf_write_finalize", finalized.ret # -1) >>
                         ELSE << >>
             close_all == Step("libewf_segment_file_close_all", close_all_ok)
         IN  IF ~close_all_ok
             THEN ResultSteps(finalized.handle, -1, finalize \o << close_all >>)
             ELSE ResultSteps(finalized.handle, 0,
                      finalize
                      \o << close_all, Step("libewf_internal_handle_free", TRUE) >>)

\* libewf_close that frees the handle before it tests the closing of the
\* segment files
libewf_close_freeing_first(handle, finalize_ok, close_all_ok) ==
    IF handle = NULL
    THEN Result(handle, -1)
    ELSE LET finalizing == /\ handle[1].write # NULL
                           /\ handle[1].write[1].write_finalized = 0
             finalized == IF finalizing
                          THEN libewf_write_finalize(handle, finalize_ok)
                          ELSE Result(handle, 0)
             finalize == IF finalizing
                         THEN << Step("libewf_write_finalize", finalized.ret # -1) >>
                         ELSE << >>
             close_all == Step("libewf_segment_file_close_all", close_all_ok)
         IN  ResultSteps(finalized.handle, IF close_all_ok THEN 0 ELSE -1,
                  finalize
                  \o << close_all, Step("libewf_internal_handle_free", TRUE) >>)

\* libewf_close: 0 if successful, -1 on error
libewf_close(handle, finalize_ok, close_all_ok) ==
    IF handle = NULL
    THEN Result(handle, -1)
    ELSE LET finalizing == /\ handle[1].write # NULL
                           /\ handle[1].write[1].write_finalized = 0
             finalized == IF finalizing
                          THEN libewf_write_finalize(handle, finalize_ok)
                          ELSE Result(handle, 0)
             finalize == IF finalizing
                         THEN << Step("libewf_write_finalize", finalized.ret # -1) >>
                         ELSE << >>
             close_all == Step("libewf_segment_file_close_all", close_all_ok)
         IN  IF ~close_all_ok
             THEN ResultSteps(finalized.handle, -1, finalize \o << close_all >>)
             ELSE ResultSteps(finalized.handle, 0,
                      finalize
                      \o << close_all, Step("libewf_internal_handle_free", TRUE) >>)

(* ------------------------------- seek --------------------------------- *)

\* libewf_segment_file_seek_chunk_offset: locates the chunk in the segment
\* files and makes it the current chunk; ok is FALSE when it cannot.
libewf_segment_file_seek_chunk_offset(internal_handle, chunk, ok) ==
    IF ~ok
    THEN Result(internal_handle, -1)
    ELSE Result(<< [ internal_handle[1] EXCEPT !.current_chunk = chunk ] >>, 0)

\* libewf_seek_offset that stores the whole offset as the offset in the chunk.
libewf_seek_offset_whole_offset(handle, offset, seek_chunk_ok) ==
    IF handle = NULL
    THEN Result(handle, -1)
    ELSE IF handle[1].media = NULL
    THEN Result(handle, -1)
    ELSE IF offset <= -1
    THEN Result(handle, -1)
    ELSE IF OffsetReaches(offset, handle[1].media[1].media_size)
    THEN Result(handle, -1)
    ELSE IF handle[1].media[1].chunk_size = 0
    THEN ResultSteps(handle, -1, << Step("division by zero", FALSE) >>)
    ELSE LET chunk == Quotient64(offset, handle[1].media[1].chunk_size)
             chunk_offset == offset
             sought == libewf_segment_file_seek_chunk_offset(handle, chunk, seek_chunk_ok)
             seek_chunk == << Step("libewf_segment_file_seek_chunk_offset", sought.ret # -1) >>
         IN  IF chunk >= INT32_MAX
             THEN Result(handle, -1)
             ELSE IF sought.ret = -1
             THEN ResultSteps(sought.handle, -1, seek_chunk)
             ELSE IF chunk_offset >= INT32_MAX
             THEN ResultSteps(sought.handle, -1, seek_chunk)
             ELSE ResultSteps(
                      << [ sought.handle[1] EXCEPT !.current_chunk_offset = chunk_offset ] >>,
                      offset, seek_chunk )

\* libewf_seek_offset that moves the offset in the chunk on from where it was.
libewf_seek_offset_relative(handle, offset, seek_chunk_ok) ==
    IF handle = NULL
    THEN Result(handle, -1)
    ELSE IF handle[1].media = NULL
    THEN Result(handle, -1)
    ELSE IF offset <= -1
    THEN Result(handle, -1)
    ELSE IF OffsetReaches(offset, handle[1].media[1].media_size)
    THEN Result(handle, -1)
    ELSE IF handle[1].media[1].chunk_size = 0
    THEN ResultSteps(handle, -1, << Step("division by zero", FALSE) >>)
    ELSE LET chunk == Quotient64(offset, handle[1].media[1].chunk_size)
             chunk_offset == Remainder64(handle[1].current_chunk_offset + offset,
                                         handle[1].media[1].chunk_size)
             sought == libewf_segment_file_seek_chunk_offset(handle, chunk, seek_chunk_ok)
             seek_chunk == << Step("libewf_segment_file_seek_chunk_offset", sought.ret # -1) >>
         IN  IF chunk >= INT32_MAX
             THEN Result(handle, -1)
             ELSE IF sought.ret = -1
             THEN ResultSteps(sought.handle, -1, seek_chunk)
             ELSE IF chunk_offset >= INT32_MAX
             THEN ResultSteps(sought.handle, -1, seek_chunk)
             ELSE ResultSteps(
                      << [ sought.handle[1] EXCEPT !.current_chunk_offset = chunk_offset ] >>,
                      offset, seek_chunk )

\* libewf_seek_offset that accepts the offset media_size as well.
libewf_seek_offset_to_end(handle, offset, seek_chunk_ok) ==
    IF handle = NULL
    THEN Result(handle, -1)
    ELSE IF handle[1].media = NULL
    THEN Result(handle, -1)
    ELSE IF offset <= -1
    THEN Result(handle, -1)
    ELSE IF offset > handle[1].media[1].media_size
    THEN Result(handle, -1)
    ELSE IF handle[1].media[1].chunk_size = 0
    THEN ResultSteps(handle, -1, << Step("division by zero", FALSE) >>)
    ELSE LET chunk == Quotient64(offset, handle[1].media[1].chunk_size)
             chunk_offset == Remainder64(offset, handle[1].media[1].chunk_size)
             sought == libewf_segment_file_seek_chunk_offset(handle, chunk, seek_chunk_ok)
             seek_chunk == << Step("libewf_segment_file_seek_chunk_offset", sought.ret # -1) >>
         IN  IF chunk >= INT32_MAX
             THEN Result(handle, -1)
             ELSE IF sought.ret = -1
             THEN ResultSteps(sought.handle, -1, seek_chunk)
             ELSE IF chunk_offset >= INT32_MAX
             THEN ResultSteps(sought.handle, -1, seek_chunk)
             ELSE ResultSteps(
                      << [ sought.handle[1] EXCEPT !.current_chunk_offset = chunk_offset ] >>,
                      offset, seek_chunk )

\* libewf_seek_offset: the offset if the seek is successful, -1 on error.
\* A chunk size of 0 with a media size above 0 would divide by zero; no
\* handle of the model has it (SeekNeverDividesByZero), the step records it.
libewf_seek_offset(handle, offset, seek_chunk_ok) ==
    IF handle = NULL
    THEN Result(handle, -1)
    ELSE IF handle[1].media = NULL
    THEN Result(handle, -1)
    ELSE IF offset <= -1 /\ ~IsWide(offset)
    THEN Result(handle, -1)
    ELSE IF OffsetReaches(offset, handle[1].media[1].media_size)
    THEN Result(handle, -1)
    ELSE IF handle[1].media[1].chunk_size = 0
    THEN ResultSteps(handle, -1, << Step("division by zero", FALSE) >>)
    ELSE LET chunk == Quotient64(offset, handle[1].media[1].chunk_size)
             chunk_offset == Remainder64(offset, handle[1].media[1].chunk_size)
             sought == libewf_segment_file_seek_chunk_offset(handle, chunk, seek_chunk_ok)
             seek_chunk == << Step("libewf_segment_file_seek_chunk_offset", sought.ret # -1) >>
         IN  IF chunk >= INT32_MAX
             THEN Result(handle, -1)
             ELSE IF sought.ret = -1
             THEN ResultSteps(sought.handle, -1, seek_chunk)
             ELSE IF chunk_offset >= INT32_MAX
             THEN ResultSteps(sought.handle, -1, seek_chunk)
             ELSE ResultSteps(
                      << [ sought.handle[1] EXCEPT !.current_chunk_offset = chunk_offset ] >>,
                      offset, seek_chunk )

(* ------------------------------ getters ------------------------------- *)

\* libewf_common_memcpy into a buffer that is not NULL does not fail: the
\* branches that test its result are not taken.

\* libewf_get_chunk_size without the initialization of the write values
libewf_get_chunk_size_without_initialize(handle, chunk_size, initialize_ok) ==
    IF handle = NULL
    THEN Result(handle, -1)
    ELSE IF handle[1].media = NULL
    THEN Result(handle, -1)
    ELSE IF chunk_size = NULL
    THEN Result(handle, -1)
    ELSE IF ExceedsInt32Max(handle[1].media[1].chunk_size)
    THEN Result(handle, -1)
    ELSE ResultOut(handle, 1, << handle[1].media[1].chunk_size >>)

\* libewf_get_chunk_size: will initialize write if necessary
libewf_get_chunk_size(handle, chunk_size, initialize_ok) ==
    IF handle = NULL
    THEN Result(handle, -1)
    ELSE IF handle[1].media = NULL
    THEN Result(handle, -1)
    ELSE IF chunk_size = NULL
    THEN Result(handle, -1)
    ELSE IF ExceedsInt32Max(handle[1].media[1].chunk_size)
    THEN Result(handle, -1)
    ELSE LET initialized ==
                 IF /\ handle[1].write # NULL
                    /\ handle[1].write[1].values_initialized = 0
                 THEN libewf_internal_handle_write_initialize(handle, initialize_ok)
                 ELSE Result(handle, 1)
         IN  IF initialized.ret # 1
             THEN Result(initialized.handle, -1)
             ELSE ResultOut(initialized.handle, 1,
                            << initialized.handle[1].media[1].chunk_size >>)

\* libewf_get_media_type: 1 if successful, -1 on error
libewf_get_media_type(handle, media_type) ==
    IF handle = NULL
    THEN Result(handle, -1)
    ELSE IF handle[1].media = NULL
    THEN Result(handle, -1)
    ELSE IF handle[1].media[1].media_type > INT8_MAX
    THEN Result(handle, -1)
    ELSE IF media_type = NULL
    THEN Result(handle, -1)
    ELSE ResultOut(handle, 1, << handle[1].media[1].media_type >>)

\* libewf_get_volume_type: 1 if successful, -1 on error
libewf_get_volume_type(handle, volume_type) ==
    IF handle = NULL
    THEN Result(handle, -1)
    ELSE IF handle[1].media = NULL
    THEN Result(handle, -1)
    ELSE IF volume_type = NULL
    THEN Result(handle, -1)
    ELSE IF ~BitTest(handle[1].media[1].media_flags, 2)
    THEN ResultOut(handle, 1, << LIBEWF_VOLUME_TYPE_LOGICAL >>)
    ELSE ResultOut(handle, 1, << LIBEWF_VOLUME_TYPE_PHYSICAL >>)

\* libewf_get_media_size: computes the media size when it is still 0
libewf_get_media_size(handle, media_size) ==
    IF handle = NULL
    THEN Result(handle, -1)
    ELSE IF handle[1].media = NULL
    THEN Result(handle, -1)
    ELSE IF media_size = NULL
    THEN Result(handle, -1)
    ELSE LET computed ==
                 IF handle[1].media[1].media_size = 0
                 THEN << [ handle[1] EXCEPT
                             !.media[1].media_size =
                                 Product64(handle[1].media[1].amount_of_sectors,
                                           handle[1].media[1].bytes_per_sector) ] >>
                 ELSE handle
         IN  IF ExceedsInt64Max(computed[1].media[1].media_size)
             THEN Result(computed, -1)
             ELSE ResultOut(computed, 1, << computed[1].media[1].media_size >>)

\* libewf_get_guid: copies the 16 bytes of the GUID
libewf_get_guid(handle, guid, size) ==
    IF handle = NULL
    THEN Result(handle, -1)
    ELSE IF guid = NULL
    THEN Result(handle, -1)
    ELSE IF size < GUID_SIZE
    THEN Result(handle, -1)
    ELSE ResultOut(handle, 1, << handle[1].guid >>)

\* libewf_get_md5_hash: 1 if successful, 0 if value not present, -1 on error
libewf_get_md5_hash(handle, md5_hash, size) ==
    IF handle = NULL
    THEN Result(handle, -1)
    ELSE IF handle[1].md5_hash_set = 0
    THEN Result(handle, 0)
    ELSE IF md5_hash = NULL
    THEN Result(handle, -1)
    ELSE IF size < EWF_DIGEST_HASH_SIZE_MD5
    THEN Result(handle, -1)
    ELSE ResultOut(handle, 1, << handle[1].md5_hash >>)

(* ------------------------------ setters ------------------------------- *)

libewf_set_sectors_per_chunk(handle, sectors_per_chunk) ==
    IF handle = NULL
    THEN Result(handle, -1)
    ELSE IF handle[1].media = NULL
    THEN Result(handle, -1)
    ELSE IF sectors_per_chunk = 0 \/ ExceedsInt32Max(sectors_per_chunk)
    THEN Result(handle, -1)
    ELSE IF \/ handle[1].write = NULL
            \/ handle[1].write[1].values_initialized # 0
    THEN Result(handle, -1)
    ELSE Result(<< [ handle[1] EXCEPT !.media[1].sectors_per_chunk = sectors_per_chunk ] >>, 1)

\* libewf_set_bytes_per_sector without the test of values_initialized.
libewf_set_bytes_per_sector_uninitialized_only(handle, bytes_per_sector) ==
    IF handle = NULL
    THEN Result(handle, -1)
    ELSE IF handle[1].media = NULL
    THEN Result(handle, -1)
    ELSE IF bytes_per_sector = 0 \/ ExceedsInt32Max(bytes_per_sector)
    THEN Result(handle, -1)
    ELSE IF handle[1].write = NULL
    THEN Result(handle, -1)
    ELSE Result(<< [ handle[1] EXCEPT !.media[1].bytes_per_sector = bytes_per_sector ] >>, 1)

libewf_set_bytes_per_sector(handle, bytes_per_sector) ==
    IF handle = NULL
    THEN Result(handle, -1)
    ELSE IF handle[1].media = NULL
    THEN Result(handle, -1)
    ELSE IF bytes_per_sector = 0 \/ ExceedsInt32Max(bytes_per_sector)
    THEN Result(handle, -1)
    ELSE IF \/ handle[1].write = NULL
            \/ handle[1].write[1].values_initialized # 0
    THEN Result(handle, -1)
    ELSE Result(<< [ handle[1] EXCEPT !.media[1].bytes_per_sector = bytes_per_sector ] >>, 1)

\* libewf_set_guid without the test of values_initialized.
libewf_set_guid_after_initialize(handle, guid, size) ==
    IF handle = NULL
    THEN Result(handle, -1)
    ELSE IF guid = NULL
    THEN Result(handle, -1)
    ELSE IF size < GUID_SIZE
    THEN Result(handle, -1)
    ELSE Result(<< [ handle[1] EXCEPT !.guid = guid[1] ] >>, 1)

libewf_set_guid(handle, guid, size) ==
    IF handle = NULL
    THEN Result(handle, -1)
    ELSE IF guid = NULL
    THEN Result(handle, -1)
    ELSE IF size < GUID_SIZE
    THEN Result(handle, -1)
    ELSE IF /\ handle[1].write # NULL
            /\ handle[1].write[1].values_initialized # 0
    THEN Result(handle, -1)
    ELSE Result(<< [ handle[1] EXCEPT !.guid = guid[1] ] >>, 1)

\* libewf_set_md5_hash without the test of md5_hash_set.
libewf_set_md5_hash_overwriting(handle, md5_hash, size) ==
    IF handle = NULL
    THEN Result(handle, -1)
    ELSE IF md5_hash = NULL
    THEN Result(handle, -1)
    ELSE IF size < EWF_DIGEST_HASH_SIZE_MD5
    THEN Result(handle, -1)
    ELSE Result(<< [ handle[1] EXCEPT !.md5_hash = md5_hash[1], !.md5_hash_set = 1 ] >>, 1)

libewf_set_md5_hash(handle, md5_hash, size) ==
    IF handle = NULL
    THEN Result(handle, -1)
    ELSE IF md5_hash = NULL
    THEN Result(handle, -1)
    ELSE IF size < EWF_DIGEST_HASH_SIZE_MD5
    THEN Result(handle, -1)
    ELSE IF handle[1].md5_hash_set # 0
    THEN Result(handle, -1)
    ELSE Result(<< [ handle[1] EXCEPT !.md5_hash = md5_hash[1], !.md5_hash_set = 1 ] >>, 1)

\* libewf_segment_file_set_filename: stores the name in the segment file
libewf_segment_file_set_filename(handle, filename) ==
    IF filename = NULL
    THEN Result(handle, -1)
    ELSE Result(<< [ handle[1] EXCEPT !.delta_segment_table[1].filename = filename ] >>, 1)

libewf_set_delta_segment_filename(handle, filename) ==
    IF handle = NULL
    THEN Result(handle, -1)
    ELSE IF handle[1].write = NULL
    THEN Result(handle, -1)
    ELSE IF handle[1].write[1].values_initialized # 0
    THEN Result(handle, -1)
    ELSE IF handle[1].delta_segment_table = NULL
    THEN Result(handle, -1)
    ELSE libewf_segment_file_set_filename(handle, filename)

libewf_set_write_segment_file_size(handle, segment_file_size) ==
    IF handle = NULL
    THEN Result(handle, -1)
    ELSE IF handle[1].write = NULL
    THEN Result(handle, -1)
    ELSE IF handle[1].write[1].values_initialized # 0
    THEN Result(handle, -1)
    ELSE IF segment_file_size = 0 \/ ExceedsInt64Max(segment_file_size)
    THEN Result(handle, -1)
    ELSE Result(<< [ handle[1] EXCEPT !.write[1].segment_file_size = segment_file_size ] >>, 1)

libewf_set_write_error_granularity(handle, error_granularity) ==
    IF handle = NULL
    THEN Result(handle, -1)
    ELSE IF handle[1].media = NULL
    THEN Result(handle, -1)
    ELSE IF /\ handle[1].write # NULL
            /\ handle[1].write[1].values_initialized # 0
    THEN Result(handle, -1)
    ELSE Result(<< [ handle[1] EXCEPT !.media[1].error_granularity = error_granularity ] >>, 1)

libewf_set_write_compression_values(handle, compression_level, compress_empty_block) ==
    IF handle = NULL
    THEN Result(handle, -1)
    ELSE IF handle[1].write = NULL
    THEN Result(handle, -1)
    ELSE LET levelled == [ handle[1] EXCEPT !.compression_level = compression_level ]
         IN  IF compression_level = EWF_COMPRESSION_NONE
             THEN Result(<< [ levelled EXCEPT
                                !.write[1].compress_empty_block = compress_empty_block ] >>, 1)
             ELSE Result(<< levelled >>, 1)

libewf_set_write_media_type(handle, media_type, volume_type) ==
    IF handle = NULL
    THEN Result(handle, -1)
    ELSE IF handle[1].media = NULL
    THEN Result(handle, -1)
    ELSE LET typed == [ handle[1] EXCEPT !.media[1].media_type = media_type ]
             flags == typed.media[1].media_flags
         IN  IF volume_type = LIBEWF_VOLUME_TYPE_LOGICAL
             THEN Result(<< [ typed EXCEPT !.media[1].media_flags =
                                BitClear(flags, EWF_MEDIA_FLAGS_IS_PHYSICAL) ] >>, 1)
             ELSE IF volume_type = LIBEWF_VOLUME_TYPE_PHYSICAL
             THEN Result(<< [ typed EXCEPT !.media[1].media_flags =
                                BitSet(flags, EWF_MEDIA_FLAGS_IS_PHYSICAL) ] >>, 1)
             ELSE Result(<< typed >>, -1)

libewf_set_write_format(handle, format) ==
    IF handle = NULL
    THEN Result(handle, -1)
    ELSE Result(<< [ handle[1] EXCEPT !.format = format ] >>, 1)

libewf_set_write_input_size(handle, input_write_size) ==
    IF handle = NULL
    THEN Result(handle, -1)
    ELSE IF handle[1].write = NULL
    THEN Result(handle, -1)
    ELSE IF handle[1].write[1].values_initialized # 0
    THEN Result(handle, -1)
    ELSE IF ExceedsInt64Max(input_write_size)
    THEN Result(handle, -1)
    ELSE Result(<< [ handle[1] EXCEPT !.write[1].input_write_size = input_write_size ] >>, 1)

(* ----------------------------- error lists ---------------------------- *)

\* An error list is a pointer to an array of sector ranges, or NULL; the
\* entry of index i of the C array is array[i + 1].
ErrorSector(sector, amount_of_sectors) ==
    [sector |-> sector, amount_of_sectors |-> amount_of_sectors]

\* The test of the loop over the first amount entries of an error list:
\* some entry starts at the sector.
HasSector(error_sectors, amount, sector) ==
    \E iterator \in 0 .. (amount - 1) :
        error_sectors[1][iterator + 1].sector = sector

\* The allocation of the first entry, or the reallocation to amount + 1
\* entries, with the new entry stored at index amount.
WithErrorSector(error_sectors, amount, sector, amount_of_sectors) ==
    IF error_sectors = NULL
    THEN << << ErrorSector(sector, amount_of_sectors) >> >>
    ELSE << SubSeq(error_sectors[1], 1, amount)
            \o << ErrorSector(sector, amount_of_sectors) >> >>

\* libewf_get_amount_of_acquiry_errors: 1 if successful, 0 if there is no
\* list, -1 on error
libewf_get_amount_of_acquiry_errors(handle, amount_of_errors) ==
    IF handle = NULL
    THEN Result(handle, -1)
    ELSE IF amount_of_errors = NULL
    THEN Result(handle, -1)
    ELSE IF handle[1].acquiry_error_sectors = NULL
    THEN Result(handle, 0)
    ELSE ResultOut(handle, 1, << handle[1].acquiry_amount_of_errors >>)

\* libewf_get_acquiry_error: 1 if successful, 0 if the list has no entry,
\* -1 on error
libewf_get_acquiry_error(handle, index, sector, amount_of_sectors) ==
    IF handle = NULL
    THEN Result(handle, -1)
    ELSE IF handle[1].acquiry_amount_of_errors = 0
    THEN Result(handle, 0)
    ELSE IF handle[1].acquiry_error_sectors = NULL
    THEN Result(handle, -1)
    ELSE IF sector = NULL
    THEN Result(handle, -1)
    ELSE IF amount_of_sectors = NULL
    THEN Result(handle, -1)
    ELSE IF index >= handle[1].acquiry_amount_of_errors
    THEN Result(handle, -1)
    ELSE ResultOut(handle, 1,
                   << handle[1].acquiry_error_sectors[1][index + 1].sector,
                      handle[1].acquiry_error_sectors[1][index + 1].amount_of_sectors >>)

\* libewf_get_amount_of_crc_errors: 1 if successful, 0 if there is no list,
\* -1 on error
libewf_get_amount_of_crc_errors(handle, amount_of_errors) ==
    IF handle = NULL
    THEN Result(handle, -1)
    ELSE IF handle[1].read = NULL
    THEN Result(handle, -1)
    ELSE IF amount_of_errors = NULL
    THEN Result(handle, -1)
    ELSE IF handle[1].read[1].crc_error_sectors = NULL
    THEN Result(handle, 0)
    ELSE ResultOut(handle, 1, << handle[1].read[1].crc_amount_of_errors >>)

\* libewf_get_crc_error: 1 if successful, 0 if the list has no entry, -1 on
\* error
libewf_get_crc_error(handle, index, sector, amount_of_sectors) ==
    IF handle = NULL
    THEN Result(handle, -1)
    ELSE IF handle[1].read = NULL
    THEN Result(handle, -1)
    ELSE IF handle[1].read[1].crc_amount_of_errors = 0
    THEN Result(handle, 0)
    ELSE IF handle[1].read[1].crc_error_sectors = NULL
    THEN Result(handle, -1)
    ELSE IF sector = NULL
    THEN Result(handle, -1)
    ELSE IF amount_of_sectors = NULL
    THEN Result(handle, -1)
    ELSE IF index >= handle[1].read[1].crc_amount_of_errors
    THEN Result(handle, -1)
    ELSE ResultOut(handle, 1,
                   << handle[1].read[1].crc_error_sectors[1][index + 1].sector,
                      handle[1].read[1].crc_error_sectors[1][index + 1].amount_of_sectors >>)

\* libewf_get_amount_of_hash_values: 1 if successful, 0 if there is no table,
\* -1 on error; the amount of the table is taken as the number of its values
libewf_get_amount_of_hash_values(handle, amount_of_values) ==
    IF handle = NULL
    THEN Result(handle, -1)
    ELSE IF amount_of_values = NULL
    THEN Result(handle, -1)
    ELSE IF handle[1].hash_values = NULL
    THEN Result(handle, 0)
    ELSE ResultOut(handle, 1, << Len(handle[1].hash_values[1]) >>)

\* libewf_add_acquiry_error without the search for the sector
libewf_add_acquiry_error_always(handle, sector, amount_of_sectors, alloc_ok) ==
    IF handle = NULL
    THEN Result(handle, -1)
    ELSE IF handle[1].media = NULL
    THEN Result(handle, -1)
    ELSE IF sector <= -1
    THEN Result(handle, -1)
    ELSE IF ~alloc_ok
    THEN Result(handle, -1)
    ELSE Result(<< [ handle[1] EXCEPT
                       !.acquiry_error_sectors =
                           WithErrorSector(handle[1].acquiry_error_sectors,
                                           handle[1].acquiry_amount_of_errors,
                                           sector, amount_of_sectors),
                       !.acquiry_amount_of_errors = @ + 1 ] >>, 1)

\* libewf_add_acquiry_error: appends the sector range unless the list has
\* an entry of the sector
libewf_add_acquiry_error(handle, sector, amount_of_sectors, alloc_ok) ==
    IF handle = NULL
    THEN Result(handle, -1)
    ELSE IF handle[1].media = NULL
    THEN Result(handle, -1)
    ELSE IF sector <= -1
    THEN Result(handle, -1)
    ELSE IF /\ handle[1].acquiry_error_sectors # NULL
            /\ HasSector(handle[1].acquiry_error_sectors,
                         handle[1].acquiry_amount_of_errors, sector)
    THEN Result(handle, 1)
    ELSE IF ~alloc_ok
    THEN Result(handle, -1)
    ELSE Result(<< [ handle[1] EXCEPT
                       !.acquiry_error_sectors =
                           WithErrorSector(handle[1].acquiry_error_sectors,
                                           handle[1].acquiry_amount_of_errors,
                                           sector, amount_of_sectors),
                       !.acquiry_amount_of_errors = @ + 1 ] >>, 1)

\* libewf_add_crc_error keeping its entries in the list of acquiry errors
libewf_add_crc_error_in_acquiry_list(handle, sector, amount_of_sectors, alloc_ok) ==
    IF handle = NULL
    THEN Result(handle, -1)
    ELSE IF handle[1].media = NULL
    THEN Result(handle, -1)
    ELSE IF handle[1].read = NULL
    THEN Result(handle, -1)
    ELSE libewf_add_acquiry_error(handle, sector, amount_of_sectors, alloc_ok)

\* libewf_add_crc_error with the result of the reallocation stored in the
\* handle before it is tested
libewf_add_crc_error_losing_list(handle, sector, amount_of_sectors, alloc_ok) ==
    IF handle = NULL
    THEN Result(handle, -1)
    ELSE IF handle[1].media = NULL
    THEN Result(handle, -1)
    ELSE IF handle[1].read = NULL
    THEN Result(handle, -1)
    ELSE IF /\ handle[1].read[1].crc_error_sectors # NULL
            /\ HasSector(handle[1].read[1].crc_error_sectors,
                         handle[1].read[1].crc_amount_of_errors, sector)
    THEN Result(handle, 1)
    ELSE IF ~alloc_ok
    THEN Result(<< [ handle[1] EXCEPT !.read[1].crc_error_sectors = NULL ] >>, -1)
    ELSE Result(<< [ handle[1] EXCEPT
                       !.read[1].crc_error_sectors =
                           WithErrorSector(handle[1].read[1].crc_error_sectors,
                                           handle[1].read[1].crc_amount_of_errors,
                                           sector, amount_of_sectors),
                       !.read[1].crc_amount_of_errors = @ + 1 ] >>, 1)

\* libewf_add_crc_error: appends the sector range to the list of the read
\* sub handle unless the list has an entry of the sector
libewf_add_crc_error(handle, sector, amount_of_sectors, alloc_ok) ==
    IF handle = NULL
    THEN Result(handle, -1)
    ELSE IF handle[1].media = NULL
    THEN Result(handle, -1)
    ELSE IF handle[1].read = NULL
    THEN Result(handle, -1)
    ELSE IF /\ handle[1].read[1].crc_error_sectors # NULL
            /\ HasSector(handle[1].read[1].crc_error_sectors,
                         handle[1].read[1].crc_amount_of_errors, sector)
    THEN Result(handle, 1)
    ELSE IF ~alloc_ok
    THEN Result(handle, -1)
    ELSE Result(<< [ handle[1] EXCEPT
                       !.read[1].crc_error_sectors =
                           WithErrorSector(handle[1].read[1].crc_error_sectors,
                                           handle[1].read[1].crc_amount_of_errors,
                                           sector, amount_of_sectors),
                       !.read[1].crc_amount_of_errors = @ + 1 ] >>, 1)

(* ---------------------------- header values --------------------------- *)

\* libewf_header_values_parse_xheader: the values table of the section, or
\* NULL
libewf_header_values_parse_xheader(xheader, date_format, ok) ==
    IF ok THEN << xheader[1] >> ELSE NULL

\* libewf_header_values_parse_header2: the values table of the section, or
\* NULL
libewf_header_values_parse_header2(header2, date_format, ok) ==
    IF ok THEN << header2[1] >> ELSE NULL

\* libewf_header_values_parse_header: the values table of the section, or
\* NULL
libewf_header_values_parse_header(header, date_format, ok) ==
    IF ok THEN << header[1] >> ELSE NULL

\* header_values->values[ LIBEWF_HEADER_VALUES_INDEX_ACQUIRY_SOFTWARE_VERSION ]
AcquirySoftwareVersion(header_values) ==
    LET found == { i \in DOMAIN header_values[1] :
                     header_values[1][i].identifier = "acquiry_software_version" }
    IN  IF found = {}
        THEN NULL
        ELSE << header_values[1][CHOOSE i \in found : TRUE].value >>

\* libewf_parse_header_values with the header section tried first
libewf_parse_header_values_header_first(handle, date_format, parses) ==
    IF handle = NULL
    THEN Result(handle, -1)
    ELSE LET from_header ==
                 IF handle[1].header # NULL
                 THEN libewf_header_values_parse_header(
                          handle[1].header, date_format, parses.header)
                 ELSE NULL
             from_header2 ==
                 IF from_header = NULL /\ handle[1].header2 # NULL
                 THEN libewf_header_values_parse_header2(
                          handle[1].header2, date_format, parses.header2)
                 ELSE from_header
             header_values ==
                 IF from_header2 = NULL /\ handle[1].xheader # NULL
                 THEN libewf_header_values_parse_xheader(
                          handle[1].xheader, date_format, parses.xheader)
                 ELSE from_header2
             steps ==
                 (IF handle[1].header # NULL
                  THEN << Step("libewf_header_values_parse_header", from_header # NULL) >>
                  ELSE << >>)
                 \o (IF from_header = NULL /\ handle[1].header2 # NULL
                     THEN << Step("libewf_header_values_parse_header2",
                                  from_header2 # NULL) >>
                     ELSE << >>)
                 \o (IF from_header2 = NULL /\ handle[1].xheader # NULL
                     THEN << Step("libewf_header_values_parse_xheader",
                                  header_values # NULL) >>
                     ELSE << >>)
         IN  IF header_values = NULL
             THEN ResultSteps(handle, -1, steps)
             ELSE ResultSteps(
                      << [ handle[1] EXCEPT
                             !.header_values = header_values,
                             !.format =
                                 IF /\ @ = "ENCASE2"
                                    /\ AcquirySoftwareVersion(header_values) = << "3" >>
                                 THEN "ENCASE3"
                                 ELSE @ ] >>, 1, steps)

\* libewf_parse_header_values: parses the first available of the xheader,
\* header2 and header sections; 1 if successful, -1 on error
libewf_parse_header_values(handle, date_format, parses) ==
    IF handle = NULL
    THEN Result(handle, -1)
    ELSE LET from_xheader ==
                 IF handle[1].xheader # NULL
                 THEN libewf_header_values_parse_xheader(
                          handle[1].xheader, date_format, parses.xheader)
                 ELSE NULL
             from_header2 ==
                 IF from_xheader = NULL /\ handle[1].header2 # NULL
                 THEN libewf_header_values_parse_header2(
                          handle[1].header2, date_format, parses.header2)
                 ELSE from_xheader
             header_values ==
                 IF from_header2 = NULL /\ handle[1].header # NULL
                 THEN libewf_header_values_parse_header(
                          handle[1].header, date_format, parses.header)
                 ELSE from_header2
             steps ==
                 (IF handle[1].xheader # NULL
                  THEN << Step("libewf_header_values_parse_xheader", from_xheader # NULL) >>
                  ELSE << >>)
                 \o (IF from_xheader = NULL /\ handle[1].header2 # NULL
                     THEN << Step("libewf_header_values_parse_header2",
                                  from_header2 # NULL) >>
                     ELSE << >>)
                 \o (IF from_header2 = NULL /\ handle[1].header # NULL
                     THEN << Step("libewf_header_values_parse_header",
                                  header_values # NULL) >>
                     ELSE << >>)
         IN  IF header_values = NULL
             THEN ResultSteps(handle, -1, steps)
             ELSE ResultSteps(
                      << [ handle[1] EXCEPT
                             !.header_values = header_values,
                             !.format =
                                 IF /\ @ = "ENCASE2"
                                    /\ AcquirySoftwareVersion(header_values) = << "3" >>
                                 THEN "ENCASE3"
                                 ELSE @ ] >>, 1, steps)

\* libewf_values_table_alloc and libewf_header_values_initialize: a table
\* without values
EmptyValuesTable == << << >> >>

\* libewf_header_values_copy: the destination table holds the identifiers
\* and values of the source table
libewf_header_values_copy(destination_header_values, source_header_values, ok) ==
    IF ok THEN source_header_values ELSE destination_header_values

\* libewf_copy_header_values with the table of the destination made before
\* the source is looked at
libewf_copy_header_values_allocating_first(destination_handle, source_handle, aliased, env) ==
    IF destination_handle = NULL
    THEN ResultOut(destination_handle, -1, << source_handle >>)
    ELSE IF source_handle = NULL
    THEN ResultOut(destination_handle, -1, << source_handle >>)
    ELSE LET allocated ==
                 IF destination_handle[1].header_values = NULL /\ env.alloc_ok
                 THEN << [ destination_handle[1] EXCEPT
                             !.header_values = EmptyValuesTable ] >>
                 ELSE destination_handle
             copied ==
                 << [ allocated[1] EXCEPT
                        !.header_values =
                            libewf_header_values_copy(
                                @, source_handle[1].header_values, env.copy_ok) ] >>
         IN  IF allocated[1].header_values = NULL
             THEN ResultOut(allocated, -1, << IF aliased THEN allocated ELSE source_handle >>)
             ELSE IF destination_handle[1].header_values = NULL /\ ~env.initialize_ok
             THEN ResultOut(allocated, -1, << IF aliased THEN allocated ELSE source_handle >>)
             ELSE IF source_handle[1].header_values = NULL
             THEN ResultOut(allocated, -1, << IF aliased THEN allocated ELSE source_handle >>)
             ELSE ResultOut(copied, IF env.copy_ok THEN 1 ELSE -1,
                            << IF aliased THEN copied ELSE source_handle >>)

\* libewf_copy_header_values: copies the header values of the source handle
\* to the destination handle; 1 if successful, -1 on error.  The output of
\* the result is the source handle after the call, which is the destination
\* handle when the caller passed one handle for both.
libewf_copy_header_values(destination_handle, source_handle, aliased, env) ==
    IF destination_handle = NULL
    THEN ResultOut(destination_handle, -1, << source_handle >>)
    ELSE IF source_handle = NULL
    THEN ResultOut(destination_handle, -1, << source_handle >>)
    ELSE IF source_handle[1].header_values = NULL
    THEN ResultOut(destination_handle, -1, << source_handle >>)
    ELSE LET allocated ==
                 IF destination_handle[1].header_values = NULL /\ env.alloc_ok
                 THEN << [ destination_handle[1] EXCEPT
                             !.header_values = EmptyValuesTable ] >>
                 ELSE destination_handle
             copied ==
                 << [ allocated[1] EXCEPT
                        !.header_values =
                            libewf_header_values_copy(
                                @, source_handle[1].header_values, env.copy_ok) ] >>
         IN  IF allocated[1].header_values = NULL
             THEN ResultOut(allocated, -1, << IF aliased THEN allocated ELSE source_handle >>)
             ELSE IF destination_handle[1].header_values = NULL /\ ~env.initialize_ok
             THEN ResultOut(allocated, -1, << IF aliased THEN allocated ELSE source_handle >>)
             ELSE ResultOut(copied, IF env.copy_ok THEN 1 ELSE -1,
                            << IF aliased THEN copied ELSE source_handle >>)

\* libewf_values_table_set_value: the value of the identifier in the
\* table, replaced where the table has the identifier and added at the end
\* where it has not; the table as it was when the call fails
libewf_values_table_set_value(values_table, identifier, value, ok) ==
    LET places == { i \in DOMAIN values_table[1] :
                      values_table[1][i].identifier = identifier[1] }
        entry == [identifier |-> identifier[1], value |-> value[1]]
    IN  IF ~ok
        THEN values_table
        ELSE IF places = {}
        THEN << Append(values_table[1], entry) >>
        ELSE << [ i \in DOMAIN values_table[1] |->
                    IF i \in places THEN entry ELSE values_table[1][i] ] >>

\* libewf_set_header_value: 1 if successful, -1 on error
libewf_set_header_value(handle, identifier, value, env) ==
    IF handle = NULL
    THEN Result(handle, -1)
    ELSE IF identifier = NULL
    THEN Result(handle, -1)
    ELSE LET allocated ==
                 IF handle[1].header_values = NULL /\ env.alloc_ok
                 THEN << [ handle[1] EXCEPT !.header_values = EmptyValuesTable ] >>
                 ELSE handle
         IN  IF allocated[1].header_values = NULL
             THEN Result(allocated, -1)
             ELSE IF handle[1].header_values = NULL /\ ~env.initialize_ok
             THEN Result(allocated, -1)
             ELSE Result(<< [ allocated[1] EXCEPT
                                !.header_values =
                                    libewf_values_table_set_value(
                                        @, identifier, value, env.set_ok) ] >>,
                         IF env.set_ok THEN 1 ELSE -1)

\* libewf_set_hash_value: 1 if successful, -1 on error
libewf_set_hash_value(handle, identifier, value, env) ==
    IF handle = NULL
    THEN Result(handle, -1)
    ELSE IF identifier = NULL
    THEN Result(handle, -1)
    ELSE LET allocated ==
                 IF handle[1].hash_values = NULL /\ env.alloc_ok
                 THEN << [ handle[1] EXCEPT !.hash_values = EmptyValuesTable ] >>
                 ELSE handle
         IN  IF allocated[1].hash_values = NULL
             THEN Result(allocated, -1)
             ELSE IF handle[1].hash_values = NULL /\ ~env.initialize_ok
             THEN Result(allocated, -1)
             ELSE Result(<< [ allocated[1] EXCEPT
                                !.hash_values =
                                    libewf_values_table_set_value(
                                        @, identifier, value, env.set_ok) ] >>,
                         IF env.set_ok THEN 1 ELSE -1)

(* --------------------------- file signature --------------------------- *)

\* libewf_check_file_signature with the result of the signature kept when
\* the close fails
libewf_check_file_signature_keeping_result(filename, env) ==
    IF filename = NULL
    THEN ResultSteps(NULL, -1, << >>)
    ELSE IF env.file_descriptor < 0
    THEN ResultSteps(NULL, -1, << Step("libewf_filename_open", FALSE) >>)
    ELSE LET steps == << Step("libewf_filename_open", TRUE),
                         Step("libewf_segment_file_check_file_signature", env.result > -1),
                         Step("libewf_common_close", env.close = 0) >>
         IN  IF env.result <= -1
             THEN ResultSteps(NULL, -1, steps)
             ELSE ResultSteps(NULL, env.result, steps)

\* libewf_check_file_signature: 1 if the file has the EWF signature, 0 if
\* not, -1 on error.  The result holds no handle.
libewf_check_file_signature(filename, env) ==
    IF filename = NULL
    THEN ResultSteps(NULL, -1, << >>)
    ELSE IF env.file_descriptor < 0
    THEN ResultSteps(NULL, -1, << Step("libewf_filename_open", FALSE) >>)
    ELSE LET steps == << Step("libewf_filename_open", TRUE),
                         Step("libewf_segment_file_check_file_signature", env.result > -1),
                         Step("libewf_common_close", env.close = 0) >>
         IN  IF env.close # 0
             THEN ResultSteps(NULL, -1, steps)
             ELSE IF env.result <= -1
             THEN ResultSteps(NULL, -1, steps)
             ELSE ResultSteps(NULL, env.result, steps)

(* ------------------------------ actions ------------------------------- *)

NoCall == [op |-> "none", args |-> NULL, ret |-> 0, out |-> NULL, steps |-> << >>]

Init ==
    /\ caller_handle = NULL
    /\ freed = FALSE
    /\ call = NoCall
    /\ pre = [handle |-> NULL, first_guid |-> NULL, first_md5_hash |-> NULL]
    /\ first_guid = NULL
    /\ first_md5_hash = NULL
    /\ finalize_runs = << >>

\* The steps of a result that ran the internal function fn.
StepsOf(steps, fn) == { i \in DOMAIN steps : steps[i].fn = fn }

\* The outcomes of the runs of libewf_write_finalize among the steps, in order.
RECURSIVE FinalizeOutcomes(_)
FinalizeOutcomes(steps) ==
    IF steps = << >>
    THEN << >>
    ELSE IF Head(steps).fn = "libewf_write_finalize"
    THEN << Head(steps).ok >> \o FinalizeOutcomes(Tail(steps))
    ELSE FinalizeOutcomes(Tail(steps))

\* The caller makes the API call op with the arguments args, which gives the
\* result r.  A freed handle is not used again.
Return(op, args, r) ==
    LET runs == FinalizeOutcomes(r.steps)
    IN  /\ ~freed
        /\ Len(finalize_runs) + Len(runs) <= MaxFinalizeRuns
        /\ caller_handle' = r.handle
        /\ freed' = ( /\ op = "libewf_close"
                      /\ StepsOf(r.steps, "libewf_internal_handle_free") # {} )
        /\ call' = [op |-> op, args |-> args, ret |-> r.ret, out |-> r.out,
                    steps |-> r.steps]
        /\ pre' = [handle |-> caller_handle, first_guid |-> first_guid,
                    first_md5_hash |-> first_md5_hash]
        /\ first_guid' = IF op = "libewf_set_guid" /\ r.ret = 1 /\ first_guid = NULL
                         THEN args.guid
                         ELSE first_guid
        /\ first_md5_hash' = IF /\ op = "libewf_set_md5_hash"
                                /\ r.ret = 1
                                /\ first_md5_hash = NULL
                             THEN args.md5_hash
                             ELSE first_md5_hash
        /\ finalize_runs' = finalize_runs \o runs

\* An output argument of a getter: NULL or a pointer to the caller's variable.
OutPointers == {NULL, <<0>>}

Open(images, flag_values) ==
    /\ caller_handle = NULL
    /\ \E filenames \in {NULL, <<"image.E01">>}, file_amount \in 0 .. 1,
          flags \in flag_values, env \in OpenOutcomes(images) :
          Return("libewf_open",
                 [filenames |-> filenames, file_amount |-> file_amount, flags |-> flags],
                 libewf_open(filenames, file_amount, flags, env))

Close ==
    \E finalize_ok \in BOOLEAN, close_all_ok \in BOOLEAN :
        Return("libewf_close", NULL, libewf_close(caller_handle, finalize_ok, close_all_ok))

\* The offsets a caller seeks to: from -1 to the size of the largest of the
\* Images, and the largest 32 bit offset.
Offsets == ( -1 .. (MaxSectors * MaxBytesPerSector) ) \cup {INT32_MAX}

SeekOffset ==
    \E offset \in Offsets, seek_chunk_ok \in BOOLEAN :
        Return("libewf_seek_offset", [offset |-> offset],
               libewf_seek_offset(caller_handle, offset, seek_chunk_ok))

\* The offsets a caller seeks to in an image of WideImages: the least and
\* the largest below 2^31, and those of the chunks of 2^32 - 1 bytes.
WideOffsets ==
    {-1, 0, 1, INT32_MAX}
    \cup { Wide(chunks, place) : chunks \in 1 .. MaxSectors, place \in DOMAIN WideRests }

SeekWideOffset ==
    \E offset \in WideOffsets, seek_chunk_ok \in BOOLEAN :
        Return("libewf_seek_offset", [offset |-> offset],
               libewf_seek_offset(caller_handle, offset, seek_chunk_ok))

WriteBuffer ==
    \E ok \in BOOLEAN :
        Return("libewf_write_buffer", NULL, libewf_write_buffer(caller_handle, ok))

WriteFinalize ==
    \E ok \in BOOLEAN :
        Return("libewf_write_finalize", NULL, libewf_write_finalize(caller_handle, ok))

GetChunkSize ==
    \E chunk_size \in OutPointers, initialize_ok \in BOOLEAN :
        Return("libewf_get_chunk_size", [chunk_size |-> chunk_size],
               libewf_get_chunk_size(caller_handle, chunk_size, initialize_ok))

GetMediaType ==
    \E media_type \in OutPointers :
        Return("libewf_get_media_type", [media_type |-> media_type],
               libewf_get_media_type(caller_handle, media_type))

GetVolumeType ==
    \E volume_type \in OutPointers :
        Return("libewf_get_volume_type", [volume_type |-> volume_type],
               libewf_get_volume_type(caller_handle, volume_type))

GetMediaSize ==
    \E media_size \in OutPointers :
        Return("libewf_get_media_size", [media_size |-> media_size],
               libewf_get_media_size(caller_handle, media_size))

GetGuid ==
    \E guid \in OutPointers, size \in BufferSizes :
        Return("libewf_get_guid", [guid |-> guid, size |-> size],
               libewf_get_guid(caller_handle, guid, size))

GetMd5Hash ==
    \E md5_hash \in OutPointers, size \in BufferSizes :
        Return("libewf_get_md5_hash", [md5_hash |-> md5_hash, size |-> size],
               libewf_get_md5_hash(caller_handle, md5_hash, size))

SetSectorsPerChunk ==
    \E sectors_per_chunk \in Uint32Values :
        Return("libewf_set_sectors_per_chunk", [sectors_per_chunk |-> sectors_per_chunk],
               libewf_set_sectors_per_chunk(caller_handle, sectors_per_chunk))

SetBytesPerSector ==
    \E bytes_per_sector \in Uint32Values :
        Return("libewf_set_bytes_per_sector", [bytes_per_sector |-> bytes_per_sector],
               libewf_set_bytes_per_sector(caller_handle, bytes_per_sector))

SetGuid ==
    \E guid \in BufferValues, size \in BufferSizes :
        Return("libewf_set_guid", [guid |-> guid, size |-> size],
               libewf_set_guid(caller_handle, guid, size))

SetMd5Hash ==
    \E md5_hash \in BufferValues, size \in BufferSizes :
        Return("libewf_set_md5_hash", [md5_hash |-> md5_hash, size |-> size],
               libewf_set_md5_hash(caller_handle, md5_hash, size))

SetDeltaSegmentFilename ==
    \E filename \in FilenameValues :
        Return("libewf_set_delta_segment_filename", [filename |-> filename],
               libewf_set_delta_segment_filename(caller_handle, filename))

SetWriteSegmentFileSize ==
    \E segment_file_size \in Size64Values :
        Return("libewf_set_write_segment_file_size",
               [segment_file_size |-> segment_file_size],
               libewf_set_write_segment_file_size(caller_handle, segment_file_size))

SetWriteErrorGranularity ==
    \E error_granularity \in Uint32Values :
        Return("libewf_set_write_error_granularity",
               [error_granularity |-> error_granularity],
               libewf_set_write_error_granularity(caller_handle, error_granularity))

SetWriteCompressionValues ==
    \E compression_level \in CompressionLevels, compress_empty_block \in 0 .. 1 :
        Return("libewf_set_write_compression_values",
               [compression_level |-> compression_level,
                compress_empty_block |-> compress_empty_block],
               libewf_set_write_compression_values(caller_handle, compression_level,
                                                   compress_empty_block))

SetWriteMediaType ==
    \E media_type \in MediaTypes, volume_type \in VolumeTypes :
        Return("libewf_set_write_media_type",
               [media_type |-> media_type, volume_type |-> volume_type],
               libewf_set_write_media_type(caller_handle, media_type, volume_type))

SetWriteFormat ==
    \E format \in FormatValues :
        Return("libewf_set_write_format", [format |-> format],
               libewf_set_write_format(caller_handle, format))

SetWriteInputSize ==
    \E input_write_size \in Size64Values :
        Return("libewf_set_write_input_size", [input_write_size |-> input_write_size],
               libewf_set_write_input_size(caller_handle, input_write_size))

\* The start sectors a caller adds: off64_t values from -1.
ErrorSectors == -1 .. MaxErrorSector

\* The amounts of sectors a caller adds: two, so that a sector can be added
\* again with another amount.
ErrorAmounts == {8, 16}

\* The number of entries of the two error lists of a handle.
AmountOfErrors(h) ==
    IF h = NULL
    THEN 0
    ELSE h[1].acquiry_amount_of_errors
         + (IF h[1].read = NULL THEN 0 ELSE h[1].read[1].crc_amount_of_errors)

AddAcquiryError ==
    \E sector \in ErrorSectors, amount_of_sectors \in ErrorAmounts, alloc_ok \in BOOLEAN :
        LET r == libewf_add_acquiry_error(caller_handle, sector, amount_of_sectors, alloc_ok)
        IN  /\ AmountOfErrors(r.handle) <= MaxErrors
            /\ Return("libewf_add_acquiry_error",
                      [sector |-> sector, amount_of_sectors |-> amount_of_sectors], r)

AddCrcError ==
    \E sector \in ErrorSectors, amount_of_sectors \in ErrorAmounts, alloc_ok \in BOOLEAN :
        LET r == libewf_add_crc_error(caller_handle, sector, amount_of_sectors, alloc_ok)
        IN  /\ AmountOfErrors(r.handle) <= MaxErrors
            /\ Return("libewf_add_crc_error",
                      [sector |-> sector, amount_of_sectors |-> amount_of_sectors], r)

GetAmountOfAcquiryErrors ==
    \E amount_of_errors \in OutPointers :
        Return("libewf_get_amount_of_acquiry_errors",
               [amount_of_errors |-> amount_of_errors],
               libewf_get_amount_of_acquiry_errors(caller_handle, amount_of_errors))

GetAcquiryError ==
    \E index \in 0 .. MaxErrors, sector \in OutPointers, amount_of_sectors \in OutPointers :
        Return("libewf_get_acquiry_error",
               [index |-> index, sector |-> sector, amount_of_sectors |-> amount_of_sectors],
               libewf_get_acquiry_error(caller_handle, index, sector, amount_of_sectors))

GetAmountOfCrcErrors ==
    \E amount_of_errors \in OutPointers :
        Return("libewf_get_amount_of_crc_errors",
               [amount_of_errors |-> amount_of_errors],
               libewf_get_amount_of_crc_errors(caller_handle, amount_of_errors))

GetCrcError ==
    \E index \in 0 .. MaxErrors, sector \in OutPointers, amount_of_sectors \in OutPointers :
        Return("libewf_get_crc_error",
               [index |-> index, sector |-> sector, amount_of_sectors |-> amount_of_sectors],
               libewf_get_crc_error(caller_handle, index, sector, amount_of_sectors))

GetAmountOfHashValues ==
    \E amount_of_values \in OutPointers :
        Return("libewf_get_amount_of_hash_values",
               [amount_of_values |-> amount_of_values],
               libewf_get_amount_of_hash_values(caller_handle, amount_of_values))

\* The date formats a caller asks for.
DateFormats == {1, 2}

\* The outcomes of the three parsers of the header sections.
ParseOutcomes == [ xheader : BOOLEAN, header2 : BOOLEAN, header : BOOLEAN ]

ParseHeaderValues ==
    \E date_format \in DateFormats, parses \in ParseOutcomes :
        Return("libewf_parse_header_values",
               [date_format |-> date_format, parses |-> parses],
               libewf_parse_header_values(caller_handle, date_format, parses))

\* The handles a caller copies header values from: no handle, a handle
\* opened for reading on an image with or without a header section, and
\* such a handle after its header values were parsed.
SourceHandles ==
    LET opened == { libewf_open(<< "source.E01" >>, 1, {LIBEWF_FLAG_READ}, env).handle :
                      env \in { e \in OpenOutcomes(HeaderImages) :
                                  /\ e.alloc_ok /\ e.read_initialize_ok /\ e.read_open_ok
                                  /\ e.determine_format_ok /\ e.write_open_ok
                                  /\ e.image.xheader = NULL /\ e.image.header2 = NULL } }
        parsed == { libewf_parse_header_values(
                        h, 1, [xheader |-> TRUE, header2 |-> TRUE, header |-> TRUE]).handle :
                      h \in opened }
    IN  {NULL} \cup opened \cup parsed

\* The outcomes of the allocation, the initialization and the copy of a
\* values table.
CopyOutcomes == [ alloc_ok : BOOLEAN, initialize_ok : BOOLEAN, copy_ok : BOOLEAN ]

CopyHeaderValues ==
    \E aliased \in BOOLEAN, env \in CopyOutcomes :
        \E source_handle \in IF aliased THEN {caller_handle} ELSE SourceHandles :
            Return("libewf_copy_header_values",
                   [source_handle |-> source_handle, aliased |-> aliased],
                   libewf_copy_header_values(caller_handle, source_handle, aliased, env))

\* What the file system answers to libewf_check_file_signature: the
\* descriptor libewf_filename_open returns, the result of
\* libewf_segment_file_check_file_signature and the result of
\* libewf_common_close.
SignatureOutcomes == [ file_descriptor : {-1, 3}, result : -1 .. 1, close : {-1, 0} ]

\* The call leaves the handle of the caller alone.
CheckFileSignature ==
    \E filename \in {NULL, << "image.E01" >>, << "notes.txt" >>}, env \in SignatureOutcomes :
        Return("libewf_check_file_signature", [filename |-> filename, env |-> env],
               [ libewf_check_file_signature(filename, env)
                   EXCEPT !.handle = caller_handle ])

\* An identifier and the values a caller sets for it.
ValueIdentifiers == {NULL, << "case_number" >>}

ValueStrings == {<< "1" >>, << "2" >>}

\* The outcomes of the allocation and the initialization of a values table
\* and of libewf_values_table_set_value.
SetValueOutcomes == [ alloc_ok : BOOLEAN, initialize_ok : BOOLEAN, set_ok : BOOLEAN ]

SetHeaderValue ==
    \E identifier \in ValueIdentifiers, value \in ValueStrings, env \in SetValueOutcomes :
        Return("libewf_set_header_value", [identifier |-> identifier, value |-> value],
               libewf_set_header_value(caller_handle, identifier, value, env))

SetHashValue ==
    \E identifier \in ValueIdentifiers, value \in ValueStrings, env \in SetValueOutcomes :
        Return("libewf_set_hash_value", [identifier |-> identifier, value |-> value],
               libewf_set_hash_value(caller_handle, identifier, value, env))

(* --------------------------- specifications --------------------------- *)

\* Every operation of the handle.
Next ==
    \/ Open(Images, FlagValues)
    \/ Close
    \/ SeekOffset
    \/ WriteBuffer
    \/ WriteFinalize
    \/ GetChunkSize
    \/ GetMediaSize
    \/ GetGuid
    \/ GetMd5Hash
    \/ SetSectorsPerChunk
    \/ SetBytesPerSector
    \/ SetGuid
    \/ SetMd5Hash
    \/ SetDeltaSegmentFilename
    \/ SetWriteSegmentFileSize
    \/ SetWriteErrorGranularity
    \/ SetWriteCompressionValues
    \/ SetWriteMediaType
    \/ SetWriteFormat
    \/ SetWriteInputSize
    \/ AddAcquiryError
    \/ AddCrcError
    \/ GetAmountOfAcquiryErrors
    \/ GetAcquiryError
    \/ ParseHeaderValues
    \/ CopyHeaderValues
    \/ CheckFileSignature
    \/ SetHeaderValue
    \/ SetHashValue
    \/ GetAmountOfCrcErrors
    \/ GetCrcError
    \/ GetAmountOfHashValues
    \/ GetMediaType
    \/ GetVolumeType

Spec == Init /\ [][Next]_vars

\* The specifications below each take the operations that write the fields
\* their properties read; the operations left out of one leave those fields
\* alone, as their definitions above show.

\* The geometry of a handle: the operations that read or write the media
\* values, the write sizes and values_initialized.
NextGeometry ==
    \/ Open(OneImage, FlagValues)
    \/ Close
    \/ WriteBuffer
    \/ GetChunkSize
    \/ SetSectorsPerChunk
    \/ SetBytesPerSector
    \/ SetWriteSegmentFileSize
    \/ SetWriteInputSize
    \/ SetWriteErrorGranularity

SpecGeometry == Init /\ [][NextGeometry]_vars

(* ------------------------ states of the handle ------------------------ *)

\* The handle was opened for writing: its write sub handle exists.
OpenedForWrite(h) == h # NULL /\ h[1].write # NULL

\* The handle has no write sub handle: it was opened for reading only.
ReadOnly(h) == h # NULL /\ h[1].write = NULL

\* The write values of the handle were initialized.
WriteInitialized(h) == OpenedForWrite(h) /\ h[1].write[1].values_initialized # 0

(* ------------------------------ geometry ------------------------------ *)

\* The setters of the geometry.
GeometrySetters ==
    { "libewf_set_sectors_per_chunk", "libewf_set_bytes_per_sector",
      "libewf_set_write_segment_file_size", "libewf_set_write_input_size",
      "libewf_set_write_error_granularity" }

\* C1: once the write values of a write handle are initialized, each of
\* libewf_set_sectors_per_chunk, libewf_set_bytes_per_sector,
\* libewf_set_write_segment_file_size, libewf_set_write_input_size and
\* libewf_set_write_error_granularity returns -1 and leaves the handle, and
\* so the value it guards, as it was.
C1_GeometryFrozenAfterInitialize ==
    ( call.op \in GeometrySetters /\ WriteInitialized(pre.handle) )
        => /\ call.ret = -1
           /\ caller_handle = pre.handle

\* A setter of the geometry was called with an acceptable value on a write
\* handle whose values were initialized, and was rejected.
C1_Witness ==
    /\ call.op = "libewf_set_bytes_per_sector"
    /\ WriteInitialized(pre.handle)
    /\ call.args.bytes_per_sector = 1
    /\ pre.handle[1].media[1].bytes_per_sector # 1
    /\ call.ret = -1

(* -------------------------- read-only handles ------------------------- *)

\* The flags that open a handle without a write sub handle.
ReadOnlyFlagValues == { flags \in FlagValues : LIBEWF_FLAG_WRITE \notin flags }

\* The setters of the handle.
Setters ==
    GeometrySetters \cup
    { "libewf_set_guid", "libewf_set_md5_hash", "libewf_set_delta_segment_filename",
      "libewf_set_write_compression_values", "libewf_set_write_media_type",
      "libewf_set_write_format" }

\* A handle that is opened for reading only, and every setter called on it.
NextReadOnly ==
    \/ Open(OneImage, ReadOnlyFlagValues)
    \/ SetSectorsPerChunk
    \/ SetBytesPerSector
    \/ SetGuid
    \/ SetMd5Hash
    \/ SetDeltaSegmentFilename
    \/ SetWriteSegmentFileSize
    \/ SetWriteErrorGranularity
    \/ SetWriteCompressionValues
    \/ SetWriteMediaType
    \/ SetWriteFormat
    \/ SetWriteInputSize

SpecReadOnly == Init /\ [][NextReadOnly]_vars

\* C2: on a handle opened for reading only every setter returns -1 and
\* changes nothing of the handle.
C2_SettersRejectedOnReadOnlyHandle ==
    ( call.op \in Setters /\ ReadOnly(pre.handle) )
        => /\ call.ret = -1
           /\ caller_handle = pre.handle

(* --------------------------- MD5 hash and GUID ------------------------ *)

\* The MD5 hash and the GUID of a handle, with the operations that
\* initialize and finalize the write values.
NextDigest ==
    \/ Open(OneImage, FlagValues)
    \/ WriteBuffer
    \/ WriteFinalize
    \/ GetChunkSize
    \/ SetSectorsPerChunk
    \/ SetBytesPerSector
    \/ SetGuid
    \/ SetMd5Hash
    \/ GetGuid
    \/ GetMd5Hash

SpecDigest == Init /\ [][NextDigest]_vars

\* The caller passed a buffer of at least the needed size.
ValidBuffer(buffer, size, needed) == buffer # NULL /\ size >= needed

\* What libewf_get_md5_hash gives in the current state for a valid buffer.
CurrentMd5Hash == libewf_get_md5_hash(caller_handle, <<0>>, EWF_DIGEST_HASH_SIZE_MD5)

NextMedia ==
    \/ Open(OneImage, FlagValues)
    \/ WriteBuffer
    \/ GetChunkSize
    \/ SetSectorsPerChunk
    \/ SetBytesPerSector
    \/ SetWriteMediaType
    \/ SetWriteCompressionValues
    \/ SetWriteFormat

SpecMedia == Init /\ [][NextMedia]_vars

\* C5: after the write values of a handle are initialized,
\* libewf_set_write_media_type returns -1 and leaves media_type and
\* media_flags as they were.
C5_MediaTypeFrozenAfterInitialize ==
    ( call.op = "libewf_set_write_media_type" /\ WriteInitialized(pre.handle) )
        => /\ call.ret = -1
           /\ caller_handle[1].media[1].media_type = pre.handle[1].media[1].media_type
           /\ caller_handle[1].media[1].media_flags = pre.handle[1].media[1].media_flags

\* C6: after the write values of a handle are initialized,
\* libewf_set_write_compression_values and libewf_set_write_format return -1
\* and leave compression_level, compress_empty_block and format as they were.
C6_CompressionAndFormatFrozenAfterInitialize ==
    ( /\ call.op \in { "libewf_set_write_compression_values", "libewf_set_write_format" }
      /\ WriteInitialized(pre.handle) )
        => /\ call.ret = -1
           /\ caller_handle[1].compression_level = pre.handle[1].compression_level
           /\ caller_handle[1].write[1].compress_empty_block
                  = pre.handle[1].write[1].compress_empty_block
           /\ caller_handle[1].format = pre.handle[1].format

(* ------------------------ the life of a handle ------------------------ *)

\* A handle from libewf_open to libewf_close, with the writes and the
\* finalization in between.
NextLifecycle ==
    \/ Open(OneImage, FlagValues)
    \/ SetSectorsPerChunk
    \/ SetBytesPerSector
    \/ WriteBuffer
    \/ WriteFinalize
    \/ Close

SpecLifecycle == Init /\ [][NextLifecycle]_vars

\* The handle has a write sub handle that was not finalized.
Unfinalized(h) == OpenedForWrite(h) /\ h[1].write[1].write_finalized = 0

\* libewf_close on a write handle that was not finalized runs
\* libewf_write_finalize once, before the segment files are closed and
\* before the handle is freed; on any other handle it runs no finalize.
FinalizeOnClose ==
    LET finalizes == StepsOf(call.steps, "libewf_write_finalize")
        closes == StepsOf(call.steps, "libewf_segment_file_close_all")
        frees == StepsOf(call.steps, "libewf_internal_handle_free")
    IN  /\ ( call.op = "libewf_close" /\ Unfinalized(pre.handle) )
               => /\ Cardinality(finalizes) = 1
                  /\ closes # {}
                  /\ \A i \in finalizes : \A j \in closes \cup frees : i < j
        /\ ( call.op = "libewf_close" /\ pre.handle # NULL /\ ~Unfinalized(pre.handle) )
               => finalizes = {}

\* The runs of libewf_write_finalize on the handle that succeeded.
SuccessfulFinalizeRuns == { i \in DOMAIN finalize_runs : finalize_runs[i] }

\* C7 as the specification states it: the implicit finalize of libewf_close,
\* and over the life of a write handle, from libewf_open to the
\* libewf_close that frees it, libewf_write_finalize runs exactly once.
C7_FinalizeRunsExactlyOnce ==
    /\ FinalizeOnClose
    /\ ( freed /\ OpenedForWrite(caller_handle) ) => Len(finalize_runs) = 1

\* C7 as the code has it: the implicit finalize of libewf_close, and over
\* the life of a write handle libewf_write_finalize runs at least once;
\* every run but the last one failed, so that it runs exactly once unless a
\* run fails.
C7_ImplicitFinalizeOnClose ==
    /\ FinalizeOnClose
    /\ \A i \in SuccessfulFinalizeRuns : i = Len(finalize_runs)
    /\ ( freed /\ OpenedForWrite(caller_handle) ) => Len(finalize_runs) >= 1

\* A write handle whose libewf_write_finalize failed once was closed and
\* freed: libewf_close ran the finalize again, before closing the segment
\* files.
C7_Witness ==
    /\ call.op = "libewf_close"
    /\ freed
    /\ Unfinalized(pre.handle)
    /\ call.steps[1].fn = "libewf_write_finalize"
    /\ Len(finalize_runs) = 2
    /\ finalize_runs[1] = FALSE

\* C8: if a step of libewf_close fails, the implicit libewf_write_finalize or
\* the closing of the segment files, libewf_close returns -1; it returns 0
\* only when every step succeeded.
C8_CloseReturnsErrors ==
    ( call.op = "libewf_close" /\ pre.handle # NULL )
        => /\ call.ret \in {0, -1}
           /\ call.ret = 0 <=> \A i \in DOMAIN call.steps : call.steps[i].ok

\* The arguments of a libewf_open that are invalid.
InvalidOpenArguments(args) ==
    \/ args.filenames = NULL
    \/ args.file_amount < 1
    \/ ( LIBEWF_FLAG_READ \notin args.flags /\ LIBEWF_FLAG_WRITE \notin args.flags )

\* C9: with filenames NULL, with file_amount below 1 or with flags that hold
\* neither READ nor WRITE libewf_open returns NULL, and no handle was
\* allocated and no segment file was opened: it took no step at all.
C9_OpenValidatesFirst ==
    ( call.op = "libewf_open" /\ InvalidOpenArguments(call.args) )
        => /\ call.ret = NULL
           /\ call.steps = << >>
           /\ caller_handle = NULL

\* libewf_open was called with filenames and flags that hold neither READ
\* nor WRITE, in an environment where every internal call would succeed.
C9_Witness ==
    /\ call.op = "libewf_open"
    /\ call.args.filenames # NULL
    /\ call.args.file_amount >= 1
    /\ call.args.flags = {"OTHER"}
    /\ call.ret = NULL

(* -------------------------------- seek -------------------------------- *)

\* Seeking in a handle: every image that is opened, and the media size.
NextSeek ==
    \/ Open(Images, FlagValues)
    \/ SeekOffset
    \/ GetMediaSize
    \/ Close

SpecSeek == Init /\ [][NextSeek]_vars

\* No libewf_seek_offset divides by a chunk size of 0: an offset passes the
\* test against media_size only on a handle that read its media values.
SeekNeverDividesByZero ==
    call.op = "libewf_seek_offset" => StepsOf(call.steps, "division by zero") = {}

\* The segment files located the chunk of the last libewf_seek_offset.
ChunkLocated ==
    \E i \in StepsOf(call.steps, "libewf_segment_file_seek_chunk_offset") : call.steps[i].ok

Position(h) == << h[1].current_chunk, h[1].current_chunk_offset >>

\* The byte of the media a read of the handle starts at.
StartOfRead(h) == h[1].current_chunk * h[1].media[1].chunk_size + h[1].current_chunk_offset

\* C11: after a libewf_seek_offset that returned the offset the current chunk
\* of the handle is offset div chunk_size and its current_chunk_offset is
\* offset mod chunk_size: chunk * chunk_size + current_chunk_offset is the
\* offset and current_chunk_offset is below chunk_size.
C11_SeekResolvesChunkAndOffset ==
    ( call.op = "libewf_seek_offset" /\ call.ret # -1 )
        => LET chunk_size == caller_handle[1].media[1].chunk_size
               offset == call.args.offset
           IN  /\ caller_handle[1].current_chunk = offset \div chunk_size
               /\ caller_handle[1].current_chunk_offset = offset % chunk_size
               /\ StartOfRead(caller_handle) = offset
               /\ caller_handle[1].current_chunk_offset < chunk_size

\* A seek into the middle of a chunk that is not the first one succeeded.
C11_Witness ==
    /\ call.op = "libewf_seek_offset"
    /\ call.args.offset > 0
    /\ call.ret = call.args.offset
    /\ caller_handle[1].current_chunk > 0
    /\ caller_handle[1].current_chunk_offset > 0
    /\ Position(pre.handle) # Position(caller_handle)

\* The handle h moved back to the start of the media.
Rewound(h) == << [ h[1] EXCEPT !.current_chunk = 0, !.current_chunk_offset = 0 ] >>

\* C12: libewf_seek_offset is idempotent and independent of the seeks before
\* it.  From every handle that any sequence of seeks has led to, a successful
\* seek to the offset k gives the position that the same seek gives from the
\* start of the media, a second seek to k leaves that position whether the
\* segment files locate the chunk again or not, and a read that follows
\* starts at the byte k.
C12_SeekIsIdempotent ==
    /\ ( call.op = "libewf_seek_offset" /\ call.ret # -1 )
           => Position(caller_handle)
                 = Position(libewf_seek_offset(Rewound(pre.handle), call.args.offset,
                                               TRUE).handle)
    /\ ( caller_handle # NULL /\ ~freed )
           => \A k \in Offsets :
                 LET once == libewf_seek_offset(caller_handle, k, TRUE)
                 IN  once.ret # -1
                        => /\ Position(once.handle)
                                 = Position(libewf_seek_offset(Rewound(caller_handle),
                                                               k, TRUE).handle)
                           /\ \A seek_chunk_ok \in BOOLEAN :
                                 Position(libewf_seek_offset(once.handle, k,
                                                             seek_chunk_ok).handle)
                                    = Position(once.handle)
                           /\ StartOfRead(once.handle) = k

\* A seek to an offset in the middle of a chunk was repeated: the handle was
\* at that position before the second seek and is at it after.
C12_Witness ==
    /\ call.op = "libewf_seek_offset"
    /\ call.args.offset > 0
    /\ call.ret = call.args.offset
    /\ Position(pre.handle) = Position(caller_handle)
    /\ caller_handle[1].current_chunk_offset > 0

(* ----------------------------- error lists ---------------------------- *)

\* The two error lists of a handle: the operations that write them.
NextErrors ==
    \/ Open(OneImage, FlagValues)
    \/ Close
    \/ AddAcquiryError
    \/ AddCrcError

SpecErrors == Init /\ [][NextErrors]_vars

\* The entries of the acquiry error list of a handle, in the order of the array.
AcquiryErrors(h) ==
    IF h = NULL \/ h[1].acquiry_error_sectors = NULL
    THEN << >>
    ELSE SubSeq(h[1].acquiry_error_sectors[1], 1, h[1].acquiry_amount_of_errors)

\* The entries of the CRC error list of a handle, in the order of the array.
CrcErrors(h) ==
    IF h = NULL \/ h[1].read = NULL \/ h[1].read[1].crc_error_sectors = NULL
    THEN << >>
    ELSE SubSeq(h[1].read[1].crc_error_sectors[1], 1, h[1].read[1].crc_amount_of_errors)

\* No two entries of the list start at the same sector.
DistinctSectors(errors) ==
    \A i, j \in DOMAIN errors : errors[i].sector = errors[j].sector => i = j

\* Some entry of the list starts at the sector.
Listed(errors, sector) == \E i \in DOMAIN errors : errors[i].sector = sector

NextAcquiryErrors ==
    \/ Open(OneImage, FlagValues)
    \/ Close
    \/ AddAcquiryError
    \/ GetAmountOfAcquiryErrors
    \/ GetAcquiryError

SpecAcquiryErrors == Init /\ [][NextAcquiryErrors]_vars

\* The list after the call is the list before it, with the range of the call
\* appended when the call added a sector that was not listed.
AppendOnly ==
    (call.op \notin {"none", "libewf_open", "libewf_close"})
    => AcquiryErrors(caller_handle)
         = IF /\ call.op = "libewf_add_acquiry_error"
              /\ call.ret = 1
              /\ ~Listed(AcquiryErrors(pre.handle), call.args.sector)
           THEN Append(AcquiryErrors(pre.handle),
                       ErrorSector(call.args.sector, call.args.amount_of_sectors))
           ELSE AcquiryErrors(pre.handle)

\* C14: the acquiry error list is ordered by insertion and append-only: with
\* the k distinct sectors added so far, libewf_get_amount_of_acquiry_errors
\* reports k (for k = 0 also by returning 0), libewf_get_acquiry_error returns
\* the sector and amount_of_sectors of the i-th sector added for i < k and
\* returns -1 for i >= k, and no call removes or reorders an entry.
C14_AcquiryErrorsInInsertionOrder ==
    LET errors == AcquiryErrors(caller_handle)
        k == Len(errors)
    IN  /\ AppendOnly
        /\ ( /\ call.op = "libewf_get_amount_of_acquiry_errors"
             /\ caller_handle # NULL
             /\ call.args.amount_of_errors # NULL )
           => \/ call.ret = 1 /\ call.out = << k >>
              \/ call.ret = 0 /\ k = 0
        /\ ( /\ call.op = "libewf_get_acquiry_error"
             /\ caller_handle # NULL
             /\ call.args.sector # NULL
             /\ call.args.amount_of_sectors # NULL )
           => IF call.args.index < k
              THEN /\ call.ret = 1
                   /\ call.out = << errors[call.args.index + 1].sector,
                                    errors[call.args.index + 1].amount_of_sectors >>
              ELSE call.ret = -1

(* ----------------------------- media size ----------------------------- *)

\* The media size of a handle: the operations that write media_size or the
\* two values it is the product of.
NextMediaSize ==
    \/ Open(Images \cup WideImage, FlagValues)
    \/ Close
    \/ GetMediaSize
    \/ SetBytesPerSector

SpecMediaSize == Init /\ [][NextMediaSize]_vars

\* The product of the two geometry values of a handle, in 64 bits.
SectorsTimesBytes(h) ==
    Product64(h[1].media[1].amount_of_sectors, h[1].media[1].bytes_per_sector)

\* C15: after a successful open for reading, and whenever
\* libewf_get_media_size returns 1, the media size reported is the 64 bit
\* product of amount_of_sectors and bytes_per_sector of the handle, also
\* after a setter changed bytes_per_sector following an earlier
\* libewf_get_media_size.
C15_MediaSizeIsProduct ==
    /\ ( /\ call.op = "libewf_open"
         /\ caller_handle # NULL
         /\ LIBEWF_FLAG_READ \in call.args.flags )
       => caller_handle[1].media[1].media_size = SectorsTimesBytes(caller_handle)
    /\ ( /\ call.op = "libewf_get_media_size"
         /\ call.ret = 1 )
       => call.out = << SectorsTimesBytes(caller_handle) >>

(* ---------------------------- header values --------------------------- *)

\* The header values of a handle: the operations that write them, and the
\* one that sets the format the parse looks at.
NextHeaderValues ==
    \/ Open(HeaderImages, FlagValues)
    \/ Close
    \/ ParseHeaderValues
    \/ CopyHeaderValues
    \/ SetWriteFormat

SpecHeaderValues == Init /\ [][NextHeaderValues]_vars

\* The sections in the order of preference.
SectionOrder == << "xheader", "header2", "header" >>

\* The section of a handle by its name.
Section(h, name) ==
    CASE name = "xheader" -> h[1].xheader
      [] name = "header2" -> h[1].header2
      [] name = "header"  -> h[1].header

\* The places in the order of preference of the sections of a handle that
\* are present and parse.
Yielding(h, parses) ==
    { i \in DOMAIN SectionOrder :
        Section(h, SectionOrder[i]) # NULL /\ parses[SectionOrder[i]] }

\* The least of a set of numbers that is not empty.
Least(numbers) == CHOOSE i \in numbers : \A j \in numbers : i <= j

\* C16: libewf_parse_header_values takes the header values from the first of
\* xheader, header2 and header that is present and parses, and consults no
\* later section once an earlier one parsed; when none yields values it
\* returns -1 and leaves the header values of the handle, and on success the
\* previous header values are replaced by the new table.
C16_ParsePrefersXheaderHeader2Header ==
    (call.op = "libewf_parse_header_values" /\ pre.handle # NULL)
    => LET yielding == Yielding(pre.handle, call.args.parses)
       IN  IF yielding = {}
           THEN /\ call.ret = -1
                /\ caller_handle[1].header_values = pre.handle[1].header_values
           ELSE /\ call.ret = 1
                /\ caller_handle[1].header_values
                       = << Section(pre.handle, SectionOrder[Least(yielding)])[1] >>
                /\ \A i \in DOMAIN SectionOrder :
                      i > Least(yielding)
                      => StepsOf(call.steps,
                                 "libewf_header_values_parse_" \o SectionOrder[i]) = {}

\* A parse that replaces the header values of an earlier parse by those of
\* the header2 section, the xheader section being present but not parsing
\* and the header section being present too.
C16_Witness ==
    /\ call.op = "libewf_parse_header_values"
    /\ pre.handle # NULL
    /\ Yielding(pre.handle, call.args.parses) = {2, 3}
    /\ pre.handle[1].xheader # NULL
    /\ pre.handle[1].header_values # NULL
    /\ call.ret = 1
    /\ caller_handle[1].header_values # pre.handle[1].header_values

\* C17: libewf_copy_header_values never modifies the source handle; when the
\* source has no header values it returns -1 and the header values of the
\* destination are unchanged, absent if they were absent; when it succeeds
\* the destination has a table whose identifiers and values are those of the
\* source, in the same order.
C17_CopyHeaderValues ==
    (call.op = "libewf_copy_header_values")
    => LET source_handle == call.args.source_handle
       IN  /\ call.out = << source_handle >>
           /\ ( /\ pre.handle # NULL
                /\ source_handle # NULL
                /\ source_handle[1].header_values = NULL )
              => /\ call.ret = -1
                 /\ caller_handle[1].header_values = pre.handle[1].header_values
           /\ call.ret = 1
              => /\ caller_handle[1].header_values # NULL
                 /\ caller_handle[1].header_values[1] = source_handle[1].header_values[1]

\* A copy that succeeds to a destination that had no header values, from
\* another handle that has some.
C17_Witness ==
    /\ call.op = "libewf_copy_header_values"
    /\ call.ret = 1
    /\ ~call.args.aliased
    /\ pre.handle[1].header_values = NULL
    /\ Len(caller_handle[1].header_values[1]) > 0
    /\ caller_handle[1].header_values = call.args.source_handle[1].header_values

(* --------------------------- file signature --------------------------- *)

\* The check of the signature of a file, before and after a handle is
\* opened and closed.
NextSignature ==
    \/ CheckFileSignature
    \/ Open(OneImage, FlagValues)
    \/ Close

SpecSignature == Init /\ [][NextSignature]_vars

\* The descriptors that the steps of a call opened and did not hand to
\* libewf_common_close afterwards.
LeftOpen(steps) ==
    { i \in StepsOf(steps, "libewf_filename_open") :
        /\ steps[i].ok
        /\ \A j \in StepsOf(steps, "libewf_common_close") : j < i }

\* C18: libewf_check_file_signature returns 1, 0 or -1; on every path after
\* the file was opened its descriptor was handed to libewf_common_close, so
\* that none stays open; the result is -1 whenever the open, the read of the
\* signature or the close failed, also when the signature matched, and is
\* the result of the signature check otherwise.
C18_CheckFileSignatureClosesFile ==
    (call.op = "libewf_check_file_signature")
    => LET env == call.args.env
           failed == \/ call.args.filename = NULL
                     \/ env.file_descriptor < 0
                     \/ env.result <= -1
                     \/ env.close # 0
       IN  /\ call.ret \in {-1, 0, 1}
           /\ LeftOpen(call.steps) = {}
           /\ failed => call.ret = -1
           /\ ~failed => call.ret = env.result
           /\ caller_handle = pre.handle

\* A file whose signature matches and whose close fails.
C18_Witness ==
    /\ call.op = "libewf_check_file_signature"
    /\ call.args.filename # NULL
    /\ call.args.env.file_descriptor >= 0
    /\ call.args.env.result = 1
    /\ call.args.env.close # 0
    /\ StepsOf(call.steps, "libewf_common_close") # {}
    /\ call.ret = -1

(* ------------------------------ media type ---------------------------- *)

\* C20: libewf_set_write_media_type with a volume type that is neither
\* LIBEWF_VOLUME_TYPE_LOGICAL nor LIBEWF_VOLUME_TYPE_PHYSICAL returns -1 and
\* changes nothing: media_type and media_flags keep the values they had
\* before the call.
C20_UnsupportedVolumeTypeChangesNothing ==
    ( /\ call.op = "libewf_set_write_media_type"
      /\ pre.handle # NULL
      /\ call.args.volume_type \notin {LIBEWF_VOLUME_TYPE_LOGICAL, LIBEWF_VOLUME_TYPE_PHYSICAL} )
    => /\ call.ret = -1
       /\ caller_handle[1].media[1].media_type = pre.handle[1].media[1].media_type
       /\ caller_handle[1].media[1].media_flags = pre.handle[1].media[1].media_flags

(* ----------------------------- failing seeks -------------------------- *)

\* The seeks in the images whose chunk index or offset in the chunk can
\* reach INT32_MAX.
NextSeekWide ==
    \/ Open(WideImages, FlagValues)
    \/ SeekWideOffset
    \/ Close

SpecSeekWide == Init /\ [][NextSeekWide]_vars

\* C19: a seek that returns -1 changes nothing: for a negative offset, an
\* offset at or beyond the media size, a chunk index of INT32_MAX or more,
\* a chunk that cannot be located and an offset in the chunk of INT32_MAX
\* or more, the current chunk and current_chunk_offset of the handle are
\* after the call what they were before it.
C19_FailingSeekChangesNothing ==
    (call.op = "libewf_seek_offset" /\ call.ret = -1 /\ pre.handle # NULL)
    => Position(caller_handle) = Position(pre.handle)

(* ----------------------------- values tables -------------------------- *)

\* The values tables of a handle: the operations that write them.
NextValues ==
    \/ Open(OneImage, FlagValues)
    \/ Close
    \/ SetHeaderValue
    \/ SetHashValue
    \/ CopyHeaderValues

SpecValues == Init /\ [][NextValues]_vars

\* C21: no partial mutation on failure in the operations on the values
\* tables: whenever libewf_set_header_value, libewf_set_hash_value or
\* libewf_copy_header_values returns -1, also when the table was allocated
\* by the call and its initialization failed, header_values and hash_values
\* of the handle are what they were before the call, absent if they were
\* absent.
C21_ValuesUnchangedOnFailure ==
    ( /\ call.op \in {"libewf_set_header_value", "libewf_set_hash_value",
                      "libewf_copy_header_values"}
      /\ call.ret = -1
      /\ pre.handle # NULL )
    => /\ caller_handle[1].header_values = pre.handle[1].header_values
       /\ caller_handle[1].hash_values = pre.handle[1].hash_values

(* ------------------------ failures of the error lists ------------------ *)

\* C22: when the allocation or reallocation in libewf_add_acquiry_error or
\* libewf_add_crc_error fails, the call returns -1 and leaves the handle as
\* it was, the list pointer, the entries and the count included, so that
\* every later call on the handle finds what it would have found without
\* the failed call.
C22_FailedAllocationChangesNothing ==
    /\ ( /\ call.op \in {"libewf_add_acquiry_error", "libewf_add_crc_error"}
         /\ call.ret = -1 )
       => caller_handle = pre.handle
    /\ (caller_handle # NULL /\ ~freed)
       => \A sector \in ErrorSectors, amount_of_sectors \in ErrorAmounts :
             LET acquiry == libewf_add_acquiry_error(
                                caller_handle, sector, amount_of_sectors, FALSE)
                 crc == libewf_add_crc_error(
                            caller_handle, sector, amount_of_sectors, FALSE)
             IN  /\ acquiry.handle = caller_handle
                 /\ crc.handle = caller_handle
                 /\ ~Listed(AcquiryErrors(caller_handle), sector) => acquiry.ret = -1
                 /\ ~Listed(CrcErrors(caller_handle), sector) => crc.ret = -1

\* A reallocation that fails for a sector that is not in a CRC error list
\* with entries.
C22_Witness ==
    /\ call.op = "libewf_add_crc_error"
    /\ call.ret = -1
    /\ CrcErrors(pre.handle) # << >>
    /\ ~Listed(CrcErrors(pre.handle), call.args.sector)
    /\ CrcErrors(caller_handle) = CrcErrors(pre.handle)

\* C23: libewf_add_acquiry_error and libewf_add_crc_error reject a negative
\* start sector: the call returns -1 and leaves the list and its count as
\* they were, so no list holds an entry with a negative sector.
C23_NegativeSectorRejected ==
    /\ ( /\ call.op \in {"libewf_add_acquiry_error", "libewf_add_crc_error"}
         /\ call.args.sector <= -1 )
       => /\ call.ret = -1
          /\ caller_handle = pre.handle
    /\ (caller_handle # NULL /\ ~freed)
       => /\ \A index \in 1..Len(AcquiryErrors(caller_handle)) :
                 AcquiryErrors(caller_handle)[index].sector >= 0
          /\ \A index \in 1..Len(CrcErrors(caller_handle)) :
                 CrcErrors(caller_handle)[index].sector >= 0

\* The list of acquiry errors of a handle: its pointer and its count.
AcquiryList(h) ==
    [ sectors |-> h[1].acquiry_error_sectors, amount |-> h[1].acquiry_amount_of_errors ]

\* The list of CRC errors of a handle, with no list for a handle without a
\* read sub handle.
CrcList(h) ==
    IF h[1].read = NULL
    THEN NULL
    ELSE << [ sectors |-> h[1].read[1].crc_error_sectors,
              amount |-> h[1].read[1].crc_amount_of_errors ] >>

\* C24: the two error lists are independent.  libewf_add_acquiry_error never
\* changes the CRC error list or its count, and libewf_add_crc_error never
\* changes the acquiry error list or its count.  On a handle without a read
\* sub handle libewf_add_crc_error, libewf_get_amount_of_crc_errors and
\* libewf_get_crc_error return -1, while libewf_add_acquiry_error adds its
\* entry on a handle opened for reading and on one opened for writing.
C24_ErrorListsIndependent ==
    /\ (call.op = "libewf_add_acquiry_error" /\ pre.handle # NULL)
       => CrcList(caller_handle) = CrcList(pre.handle)
    /\ (call.op = "libewf_add_crc_error" /\ pre.handle # NULL)
       => /\ AcquiryList(caller_handle) = AcquiryList(pre.handle)
          /\ pre.handle[1].read = NULL
             => (call.ret = -1 /\ caller_handle = pre.handle)
    /\ (caller_handle # NULL /\ ~freed)
       => /\ caller_handle[1].read = NULL
             => /\ \A amount_of_errors \in OutPointers :
                       libewf_get_amount_of_crc_errors(
                           caller_handle, amount_of_errors).ret = -1
                /\ \A index \in 0 .. MaxErrors, sector \in OutPointers,
                      amount_of_sectors \in OutPointers :
                       libewf_get_crc_error(
                           caller_handle, index, sector, amount_of_sectors).ret = -1
          /\ \A sector \in 0 .. MaxErrorSector, amount_of_sectors \in ErrorAmounts :
                LET r == libewf_add_acquiry_error(
                             caller_handle, sector, amount_of_sectors, TRUE)
                IN  /\ r.ret = 1
                    /\ Listed(AcquiryErrors(r.handle), sector)

\* An add to the CRC error list of a handle that holds acquiry errors.
C24_Witness ==
    /\ call.op = "libewf_add_crc_error"
    /\ call.ret = 1
    /\ AcquiryErrors(pre.handle) # << >>
    /\ Len(CrcErrors(caller_handle)) = Len(CrcErrors(pre.handle)) + 1
    /\ AcquiryErrors(caller_handle) = AcquiryErrors(pre.handle)

(* ------------------------ media and volume type ------------------------ *)

\* The media type and the volume type of a handle, written and read back.
NextMediaType ==
    \/ Open(OneImage, FlagValues)
    \/ Close
    \/ SetWriteMediaType
    \/ GetMediaType
    \/ GetVolumeType

SpecMediaType == Init /\ [][NextMediaType]_vars

\* The bits of the media flags other than the bit that tells a physical
\* volume.
OtherFlags(h) == BitClear(h[1].media[1].media_flags, EWF_MEDIA_FLAGS_IS_PHYSICAL)

\* C25: after libewf_set_write_media_type(handle, t, v) returned 1 with v
\* LIBEWF_VOLUME_TYPE_LOGICAL or LIBEWF_VOLUME_TYPE_PHYSICAL,
\* libewf_get_volume_type returns 1 and reports v, and libewf_get_media_type
\* returns 1 and reports t; the setter changes only the bit 0x02 of the media
\* flags and leaves every other bit as it was.
C25_VolumeTypeRoundTrips ==
    ( /\ call.op = "libewf_set_write_media_type"
      /\ call.ret = 1
      /\ call.args.volume_type
             \in {LIBEWF_VOLUME_TYPE_LOGICAL, LIBEWF_VOLUME_TYPE_PHYSICAL} )
    => /\ libewf_get_volume_type(caller_handle, <<0>>)
              = ResultOut(caller_handle, 1, << call.args.volume_type >>)
       /\ libewf_get_media_type(caller_handle, <<0>>)
              = ResultOut(caller_handle, 1, << call.args.media_type >>)
       /\ OtherFlags(caller_handle) = OtherFlags(pre.handle)

(* ------------------------- compression values ------------------------- *)

\* C26: compress_empty_block of a write handle is non-zero only while the
\* compression level of the handle is EWF_COMPRESSION_NONE, after any
\* sequence of calls of libewf_set_write_compression_values: a call with
\* another level never leaves an enabled compress_empty_block in force.
C26_CompressEmptyBlockOnlyWithoutCompression ==
    ( /\ caller_handle # NULL
      /\ ~freed
      /\ caller_handle[1].write # NULL
      /\ caller_handle[1].write[1].compress_empty_block # 0 )
    => caller_handle[1].compression_level = EWF_COMPRESSION_NONE

(* ----------------------- chunk size of a handle ----------------------- *)

\* The handle has a write sub handle whose values are not initialized.
WriteUninitialized(h) == OpenedForWrite(h) /\ h[1].write[1].values_initialized = 0

\* C27: libewf_get_chunk_size on a write handle whose values are not yet
\* initialized performs the write initialization: it returns -1 when the
\* initialization fails, and otherwise returns 1 with the chunk size of the
\* initialized handle, whose geometry setters return -1 from then on.  On a
\* handle without a write sub handle, and on a write handle whose values are
\* initialized, it leaves the handle as it was.
C27_GetChunkSizeInitializesWrite ==
    /\ (call.op = "libewf_get_chunk_size" /\ WriteUninitialized(pre.handle))
       => \/ /\ call.ret = -1
             /\ caller_handle = pre.handle
          \/ /\ call.ret = 1
             /\ caller_handle = libewf_internal_handle_write_initialize(pre.handle, TRUE).handle
             /\ WriteInitialized(caller_handle)
             /\ call.out = << caller_handle[1].media[1].chunk_size >>
             /\ \A value \in 1 .. MaxUint :
                   /\ libewf_set_sectors_per_chunk(caller_handle, value)
                          = Result(caller_handle, -1)
                   /\ libewf_set_bytes_per_sector(caller_handle, value)
                          = Result(caller_handle, -1)
                   /\ libewf_set_write_segment_file_size(caller_handle, value)
                          = Result(caller_handle, -1)
                   /\ libewf_set_write_input_size(caller_handle, value)
                          = Result(caller_handle, -1)
                   /\ libewf_set_write_error_granularity(caller_handle, value)
                          = Result(caller_handle, -1)
    /\ (call.op = "libewf_get_chunk_size" /\ ~WriteUninitialized(pre.handle))
       => caller_handle = pre.handle
    /\ (WriteUninitialized(caller_handle) /\ ~freed)
       => LET initialized == libewf_internal_handle_write_initialize(caller_handle, TRUE)
          IN  /\ libewf_get_chunk_size(caller_handle, <<0>>, FALSE)
                     = Result(caller_handle, -1)
              /\ libewf_get_chunk_size(caller_handle, <<0>>, TRUE)
                     = IF initialized.ret = 1
                       THEN ResultOut(initialized.handle, 1,
                                      << initialized.handle[1].media[1].chunk_size >>)
                       ELSE Result(caller_handle, -1)

\* libewf_get_chunk_size initialized the write values of a handle and
\* returned a chunk size that the handle did not have before.
C27_Witness ==
    /\ call.op = "libewf_get_chunk_size"
    /\ WriteUninitialized(pre.handle)
    /\ call.ret = 1
    /\ WriteInitialized(caller_handle)
    /\ call.out # << pre.handle[1].media[1].chunk_size >>
    /\ call.out[1] > 0

(* --------------------------- amounts of values ------------------------ *)

\* The amounts a caller asks for: of the CRC errors and of the hash values
\* of a handle, between adds to the one and sets of the other.
NextAmounts ==
    \/ Open(OneImage, FlagValues)
    \/ Close
    \/ AddCrcError
    \/ SetHashValue
    \/ GetAmountOfCrcErrors
    \/ GetAmountOfHashValues

SpecAmounts == Init /\ [][NextAmounts]_vars

\* C28: libewf_get_amount_of_crc_errors and libewf_get_amount_of_hash_values
\* return only 1, with the amount written, or -1; on a handle with a read sub
\* handle on which no CRC error was recorded,
\* libewf_get_amount_of_crc_errors returns 1 and reports an amount of 0.
C28_AmountGettersReturnOneOrError ==
    /\ call.op \in {"libewf_get_amount_of_crc_errors", "libewf_get_amount_of_hash_values"}
       => \/ call.ret = -1
          \/ call.ret = 1 /\ call.out # NULL
    /\ ( /\ call.op = "libewf_get_amount_of_crc_errors"
         /\ call.args.amount_of_errors # NULL
         /\ pre.handle # NULL
         /\ pre.handle[1].read # NULL
         /\ CrcErrors(pre.handle) = << >> )
       => /\ call.ret = 1
          /\ call.out = << 0 >>

(* ------------------------- the paths of libewf_open -------------------- *)

\* The places of the calls of fn among the steps of the last call.
CallSteps(fn) == StepsOf(call.steps, fn)

\* C29: libewf_open with LIBEWF_FLAG_READ and LIBEWF_FLAG_WRITE both set
\* takes the read path only: after the allocation it runs the read
\* initialization and then the read-open of the segment files, computes the
\* media size of the handle it returns, and never runs the write-open; the
\* write-open runs only when LIBEWF_FLAG_WRITE is set and LIBEWF_FLAG_READ
\* is not.
C29_ReadAndWriteTakesReadPath ==
    call.op = "libewf_open"
    => /\ CallSteps("libewf_segment_file_write_open") # {}
          => /\ LIBEWF_FLAG_WRITE \in call.args.flags
             /\ LIBEWF_FLAG_READ \notin call.args.flags
       /\ ( /\ {LIBEWF_FLAG_READ, LIBEWF_FLAG_WRITE} \subseteq call.args.flags
            /\ Len(call.steps) > 1 )
          => /\ call.steps[2].fn = "libewf_internal_handle_read_initialize"
             /\ call.steps[2].ok
                => call.steps[3].fn = "libewf_segment_file_read_open"
       /\ ( /\ {LIBEWF_FLAG_READ, LIBEWF_FLAG_WRITE} \subseteq call.args.flags
            /\ call.ret # NULL )
          => /\ \E i \in CallSteps("libewf_internal_handle_read_initialize") : call.steps[i].ok
             /\ \E i \in CallSteps("libewf_segment_file_read_open") : call.steps[i].ok
             /\ call.ret[1].read # NULL
             /\ call.ret[1].media[1].media_size
                    = Product64(call.ret[1].media[1].amount_of_sectors,
                                call.ret[1].media[1].bytes_per_sector)

\* An open with both flags that returned a handle with a media size.
C29_Witness ==
    /\ call.op = "libewf_open"
    /\ {LIBEWF_FLAG_READ, LIBEWF_FLAG_WRITE} \subseteq call.args.flags
    /\ call.ret # NULL
    /\ call.ret[1].media[1].media_size > 0
    /\ CallSteps("libewf_segment_file_write_open") = {}

(* ------------------------ the freeing of a handle ---------------------- *)

\* The last call failed in the internal function fn.
FailedIn(fn) == \E i \in CallSteps(fn) : ~call.steps[i].ok

\* C30: no handle outlives a failed open or a successful close.  When
\* libewf_open returns NULL after the handle was allocated, because the read
\* initialization, the read-open or the write-open failed, the handle was
\* freed exactly once, as the last step; a failure to determine the format
\* does not fail the open, and a handle that is returned was not freed.
\* libewf_close frees the handle exactly once when it returns 0, and leaves
\* it unfreed when it returns -1 because the segment files could not be
\* closed.
C30_HandleFreedExactlyOnce ==
    /\ call.op = "libewf_open"
       => /\ ( /\ call.ret = NULL
               /\ \E i \in CallSteps("libewf_internal_handle_alloc") : call.steps[i].ok )
             => /\ \/ FailedIn("libewf_internal_handle_read_initialize")
                   \/ FailedIn("libewf_segment_file_read_open")
                   \/ FailedIn("libewf_segment_file_write_open")
                /\ CallSteps("libewf_internal_handle_free") = {Len(call.steps)}
          /\ ( \/ FailedIn("libewf_internal_handle_read_initialize")
               \/ FailedIn("libewf_segment_file_read_open")
               \/ FailedIn("libewf_segment_file_write_open") )
             => call.ret = NULL
          /\ call.ret # NULL => CallSteps("libewf_internal_handle_free") = {}
          /\ FailedIn("libewf_internal_handle_determine_format")
             => /\ call.ret # NULL
                /\ caller_handle = call.ret
    /\ (call.op = "libewf_close" /\ pre.handle # NULL)
       => /\ call.ret = 0
             => /\ CallSteps("libewf_internal_handle_free") = {Len(call.steps)}
                /\ freed
          /\ call.ret = -1
             => /\ FailedIn("libewf_segment_file_close_all")
                /\ CallSteps("libewf_internal_handle_free") = {}
                /\ ~freed
                /\ caller_handle # NULL

\* A close that could not close the segment files returned -1 and left the
\* handle with the caller, unfreed.
C30_Witness ==
    /\ call.op = "libewf_close"
    /\ pre.handle # NULL
    /\ call.ret = -1
    /\ FailedIn("libewf_segment_file_close_all")
    /\ caller_handle # NULL
    /\ ~freed

====
